---- MODULE Spec2Model ----
(***************************************************************************)
(* Director-to-profile verification and scoring engine of                  *)
(* src/data_collection/linkedin_verification.py.                           *)
(*                                                                         *)
(* A Python str is a TLA+ string and a character is a string of length 1. *)
(* An optional value (a pandas cell that may be NaN, a Python value that   *)
(* may be None) is a sequence of length at most 1: <<>> is NaN / None and  *)
(* <<s>> is the string s.                                                  *)
(***************************************************************************)
EXTENDS Integers, Sequences, FiniteSets, TLC

VARIABLES
    subject,            \* the director looked up: [director_name, company_name]
    result,             \* the latest scorer call: [fn, linkedin_title, ret]
    prev,               \* the scorer call before it
    csv,                \* the rows of the input file
    df,                 \* the table verify_url_data works on, a sequence of rows
    apply_filter,       \* argument of verify_url_data
    min_match_score,    \* argument of verify_url_data
    pc,                 \* position of run_verification_standalone
    idx,                \* loop position of df.iterrows(), 1-based
    quality_counts,     \* quality flag -> count
    no_url_count,       \* rows skipped
    scored,             \* the positions of the rows handed to the scorer
    report,             \* what the summary printed
    returned,           \* the tables the calls of verify_url_data returned so far
    urls,               \* scrape_posts: the unique profile URLs of the input
    batch_size,         \* scrape_posts: profiles per Apify run
    output_dir,         \* scrape_posts: the files of the output directory
    run,                \* scrape_posts: the locals of run_scraping and its loop
    scrape_pc,          \* scrape_posts: position of run_scraping
    calls,              \* scrape_posts: the number of run_scraping calls so far
    batch_file,         \* find_linkedin_urls: the number of queries of the batch file
    checkpoint_path,    \* find_linkedin_urls: the files of the checkpoint directory
    results_file,       \* find_linkedin_urls: the results file of the batch
    job,                \* find_linkedin_urls: the locals of process_batch_file
    batch_pc,           \* find_linkedin_urls: position of process_batch_file
    batch_runs          \* find_linkedin_urls: the number of runs so far

verify_vars == <<subject, result, prev, csv, df, apply_filter, min_match_score, pc, idx,
                 quality_counts, no_url_count, scored, report, returned>>

scrape_vars == <<urls, batch_size, output_dir, run, scrape_pc, calls>>

batch_vars == <<batch_file, checkpoint_path, results_file, job, batch_pc, batch_runs>>

vars == <<verify_vars, scrape_vars, batch_vars>>

-----------------------------------------------------------------------------
(* Optional values *)

NaN == <<>>
None == <<>>
Str(s) == <<s>>
isna(v) == v = <<>>
str(v) == v[1]

-----------------------------------------------------------------------------
(* Python str and re primitives, character by character *)

\* str.lower and str.upper, letter by letter
LowerOf ==
    [ A |-> "a", B |-> "b", C |-> "c", D |-> "d", E |-> "e", F |-> "f", G |-> "g",
      H |-> "h", I |-> "i", J |-> "j", K |-> "k", L |-> "l", M |-> "m", N |-> "n",
      O |-> "o", P |-> "p", Q |-> "q", R |-> "r", S |-> "s", T |-> "t", U |-> "u",
      V |-> "v", W |-> "w", X |-> "x", Y |-> "y", Z |-> "z" ]

UpperOf ==
    [ a |-> "A", b |-> "B", c |-> "C", d |-> "D", e |-> "E", f |-> "F", g |-> "G",
      h |-> "H", i |-> "I", j |-> "J", k |-> "K", l |-> "L", m |-> "M", n |-> "N",
      o |-> "O", p |-> "P", q |-> "Q", r |-> "R", s |-> "S", t |-> "T", u |-> "U",
      v |-> "V", w |-> "W", x |-> "X", y |-> "Y", z |-> "Z" ]

UpperCase == DOMAIN LowerOf
LowerCase == DOMAIN UpperOf
Digits == {"0", "1", "2", "3", "4", "5", "6", "7", "8", "9"}

CharAt(s, i) == IF i >= 1 /\ i <= Len(s) THEN SubSeq(s, i, i) ELSE ""

LowerChar(c) == IF c \in UpperCase THEN LowerOf[c] ELSE c

UpperChar(c) == IF c \in LowerCase THEN UpperOf[c] ELSE c

\* str.lower(): character by character, the string halved at each step
RECURSIVE lower(_)
lower(s) ==
    IF Len(s) <= 1 THEN LowerChar(s)
    ELSE lower(SubSeq(s, 1, Len(s) \div 2)) \o lower(SubSeq(s, Len(s) \div 2 + 1, Len(s)))

\* str.upper()
RECURSIVE upper(_)
upper(s) ==
    IF Len(s) <= 1 THEN UpperChar(s)
    ELSE upper(SubSeq(s, 1, Len(s) \div 2)) \o upper(SubSeq(s, Len(s) \div 2 + 1, Len(s)))

IsSpace(c) == c \in {" ", "\t", "\n", "\r"}

IsDigit(c) == c \in Digits

\* \w of the re module
WordChars == LowerCase \cup UpperCase \cup Digits \cup {"_"}

IsWordChar(c) == c \in WordChars

\* \b of the re module, between the characters p-1 and p of s
WordBoundary(s, p) == IsWordChar(CharAt(s, p - 1)) # IsWordChar(CharAt(s, p))

isdigit(s) == s # "" /\ \A i \in 1..Len(s) : IsDigit(SubSeq(s, i, i))

RECURSIVE lstrip(_)
lstrip(s) ==
    IF s # "" /\ IsSpace(CharAt(s, 1)) THEN lstrip(SubSeq(s, 2, Len(s))) ELSE s

RECURSIVE rstrip(_)
rstrip(s) ==
    IF s # "" /\ IsSpace(CharAt(s, Len(s))) THEN rstrip(SubSeq(s, 1, Len(s) - 1)) ELSE s

strip(s) == rstrip(lstrip(s))

\* the position of the first whitespace character of s at or after i
Min(S) == CHOOSE x \in S : \A y \in S : x <= y

Max(S) == CHOOSE x \in S : \A y \in S : x >= y

WordEnd(s, i) == Min({j \in i..(Len(s) + 1) : j > Len(s) \/ IsSpace(CharAt(s, j))})

\* str.split() without arguments
RECURSIVE SplitWords(_)
SplitWords(t) ==
    IF t = "" THEN <<>>
    ELSE <<SubSeq(t, 1, WordEnd(t, 1) - 1)>>
             \o SplitWords(lstrip(SubSeq(t, WordEnd(t, 1), Len(t))))

split(s) == SplitWords(lstrip(s))

InList(x, list) == \E i \in 1..Len(list) : list[i] = x

\* str.join
RECURSIVE join(_, _)
join(sep, list) ==
    IF list = <<>> THEN ""
    ELSE IF Len(list) = 1 THEN list[1]
    ELSE list[1] \o sep \o join(sep, Tail(list))

\* `sub in s` for strings
Contains(s, sub) ==
    \E i \in 1..(Len(s) - Len(sub) + 1) : SubSeq(s, i, i + Len(sub) - 1) = sub

\* re.search(r'\b' + re.escape(word) + r'\b', text)
ReSearchWord(word, text) ==
    \E i \in 1..(Len(text) - Len(word) + 1) :
        /\ SubSeq(text, i, i + Len(word) - 1) = word
        /\ WordBoundary(text, i)
        /\ WordBoundary(text, i + Len(word))

\* the character classes the substitutions use
InClass(c, cls) ==
    CASE cls = "dot" -> c = "."
      [] cls = "space" -> IsSpace(c)
      [] OTHER -> FALSE

\* what the character i of s becomes: the first character of a run becomes
\* the space, the others of the run nothing
RunChar(s, i, cls) ==
    IF ~InClass(CharAt(s, i), cls) THEN CharAt(s, i)
    ELSE IF i > 1 /\ InClass(CharAt(s, i - 1), cls) THEN ""
    ELSE " "

RECURSIVE ReSubRunsIn(_, _, _, _)
ReSubRunsIn(s, cls, lo, hi) ==
    IF lo > hi THEN ""
    ELSE IF lo = hi THEN RunChar(s, lo, cls)
    ELSE ReSubRunsIn(s, cls, lo, (lo + hi) \div 2)
             \o ReSubRunsIn(s, cls, (lo + hi) \div 2 + 1, hi)

\* re.sub(r'\.+', ' ', s) and re.sub(r'\s+', ' ', s): each run becomes one space
ReSubRuns(s, cls) == ReSubRunsIn(s, cls, 1, Len(s))

\* re.sub(r'[^\w\s-]', ' ', s): each such character becomes a space
PunctToSpace(c) == IF IsWordChar(c) \/ IsSpace(c) \/ c = "-" THEN c ELSE " "

RECURSIVE ReSubPunct(_)
ReSubPunct(s) ==
    IF s = "" THEN ""
    ELSE IF Len(s) = 1 THEN PunctToSpace(s)
    ELSE ReSubPunct(SubSeq(s, 1, Len(s) \div 2))
             \o ReSubPunct(SubSeq(s, Len(s) \div 2 + 1, Len(s)))

-----------------------------------------------------------------------------
(* extract_name_parts *)

\* The alternatives of the credential pattern, in order; "." is a literal
\* dot and "?" makes the character before it optional.
credential_patterns ==
    << "ph.?d.?", "m.?d.?", "mba", "m.?b.?a.?", "cpa", "c.?p.?a.?", "j.?d.?",
       "esq.?", "b.?a.?", "b.?s.?", "m.?s.?", "m.?p.?h.?", "kbe", "ac", "obe", "cbe" >>

\* The positions where a match of pat[pi..] that starts at s[si] can end, in
\* the order the backtracking matcher tries them (an optional character is
\* taken first); re.IGNORECASE.
RECURSIVE MatchEnds(_, _, _, _)
MatchEnds(pat, pi, s, si) ==
    IF pi > Len(pat) THEN <<si>>
    ELSE LET c == CharAt(pat, pi)
             opt == CharAt(pat, pi + 1) = "?"
             nxt == IF opt THEN pi + 2 ELSE pi + 1
             take == IF LowerChar(CharAt(s, si)) = c
                     THEN MatchEnds(pat, nxt, s, si + 1)
                     ELSE <<>>
         IN  IF opt THEN take \o MatchEnds(pat, nxt, s, si) ELSE take

\* The ends of the matches of \b(pat)\b at s[i], in the order the matcher tries them
ValidEnds(pat, s, i) ==
    IF WordBoundary(s, i) /\ IsWordChar(CharAt(s, i))
    THEN SelectSeq(MatchEnds(pat, 1, s, i), LAMBDA e : WordBoundary(s, e))
    ELSE <<>>

\* The alternatives that match at s[i], in order
Alternatives(s, i) == SelectSeq(credential_patterns, LAMBDA pat : ValidEnds(pat, s, i) # <<>>)

FirstEnd(alternatives, s, i) ==
    IF alternatives = <<>> THEN 0 ELSE ValidEnds(alternatives[1], s, i)[1]

\* The end of the match of the credential pattern at s[i], 0 if none
CredentialEnd(s, i) == FirstEnd(Alternatives(s, i), s, i)

\* re.sub(credentials, '', s, flags=re.IGNORECASE), scanning from position i:
\* the text up to the next match is kept, the match dropped
RECURSIVE ReSubCredentials(_, _)
DropMatch(s, i, starts) ==
    IF starts = {} THEN SubSeq(s, i, Len(s))
    ELSE SubSeq(s, i, Min(starts) - 1) \o ReSubCredentials(s, CredentialEnd(s, Min(starts)))

ReSubCredentials(s, i) ==
    DropMatch(s, i, {j \in i..Len(s) : CredentialEnd(s, j) # 0})

name_suffixes ==
    {"jr", "sr", "ii", "iii", "iv", "v", "vi", "vii", "viii", "2nd", "3rd", "4th"}

nicknames ==
    << [formal |-> "robert", nicks |-> <<"bob", "rob", "bobby", "bert">>],
       [formal |-> "william", nicks |-> <<"bill", "will", "billy", "willy", "liam">>],
       [formal |-> "richard", nicks |-> <<"rick", "dick", "rich", "ricky">>],
       [formal |-> "james", nicks |-> <<"jim", "jimmy", "jamie">>],
       [formal |-> "timothy", nicks |-> <<"tim", "timmy">>],
       [formal |-> "thomas", nicks |-> <<"tom", "tommy">>],
       [formal |-> "michael", nicks |-> <<"mike", "mick", "mickey">>],
       [formal |-> "joseph", nicks |-> <<"joe", "joey">>],
       [formal |-> "christopher", nicks |-> <<"chris", "kit">>],
       [formal |-> "anthony", nicks |-> <<"tony", "ant">>],
       [formal |-> "steven", nicks |-> <<"steve", "stevie">>],
       [formal |-> "stephen", nicks |-> <<"steve", "stevie">>],
       [formal |-> "edward", nicks |-> <<"ed", "eddie", "ted", "teddy">>],
       [formal |-> "charles", nicks |-> <<"charlie", "chuck", "chas">>],
       [formal |-> "daniel", nicks |-> <<"dan", "danny">>],
       [formal |-> "matthew", nicks |-> <<"matt", "matty">>],
       [formal |-> "andrew", nicks |-> <<"andy", "drew">>],
       [formal |-> "david", nicks |-> <<"dave", "davey">>],
       [formal |-> "kenneth", nicks |-> <<"ken", "kenny">>],
       [formal |-> "ronald", nicks |-> <<"ron", "ronny", "ronnie">>],
       [formal |-> "donald", nicks |-> <<"don", "donny", "donnie">>],
       [formal |-> "raymond", nicks |-> <<"ray">>],
       [formal |-> "lawrence", nicks |-> <<"larry", "lars">>],
       [formal |-> "nicholas", nicks |-> <<"nick", "nicky">>],
       [formal |-> "benjamin", nicks |-> <<"ben", "benny", "benji">>],
       [formal |-> "samuel", nicks |-> <<"sam", "sammy">>],
       [formal |-> "gregory", nicks |-> <<"greg", "gregg">>],
       [formal |-> "patrick", nicks |-> <<"pat", "paddy">>],
       [formal |-> "alexander", nicks |-> <<"alex", "al", "xander">>],
       [formal |-> "albert", nicks |-> <<"al", "bert", "bertie">>],
       [formal |-> "frederick", nicks |-> <<"fred", "freddy", "freddie">>],
       [formal |-> "gerald", nicks |-> <<"jerry", "gerry">>],
       [formal |-> "harold", nicks |-> <<"harry", "hal">>],
       [formal |-> "jeffrey", nicks |-> <<"jeff", "geoff">>],
       [formal |-> "jonathan", nicks |-> <<"jon", "john", "jonny">>],
       [formal |-> "peter", nicks |-> <<"pete">>],
       [formal |-> "phillip", nicks |-> <<"phil">>],
       [formal |-> "philip", nicks |-> <<"phil">>],
       [formal |-> "stanley", nicks |-> <<"stan">>],
       [formal |-> "theodore", nicks |-> <<"ted", "teddy", "theo">>],
       [formal |-> "walter", nicks |-> <<"walt", "wally">>],
       [formal |-> "elizabeth", nicks |-> <<"liz", "lizzy", "beth", "betty", "eliza">>],
       [formal |-> "margaret", nicks |-> <<"maggie", "meg", "peggy", "marge">>],
       [formal |-> "catherine", nicks |-> <<"cathy", "kate", "katie", "cat">>],
       [formal |-> "katherine", nicks |-> <<"kathy", "kate", "katie", "kat">>],
       [formal |-> "patricia", nicks |-> <<"pat", "patty", "trish">>],
       [formal |-> "jennifer", nicks |-> <<"jen", "jenny">>],
       [formal |-> "jessica", nicks |-> <<"jess", "jessie">>],
       [formal |-> "susan", nicks |-> <<"sue", "susie", "suzy">>],
       [formal |-> "rebecca", nicks |-> <<"becky", "becca">>],
       [formal |-> "barbara", nicks |-> <<"barb", "barbie", "babs">>],
       [formal |-> "dorothy", nicks |-> <<"dot", "dotty", "dottie">>],
       [formal |-> "deborah", nicks |-> <<"deb", "debbie">>],
       [formal |-> "nancy", nicks |-> <<"nan">>],
       [formal |-> "carolyn", nicks |-> <<"carol", "carrie">>],
       [formal |-> "christine", nicks |-> <<"chris", "christy", "tina">>],
       [formal |-> "virginia", nicks |-> <<"ginny", "ginger">>],
       [formal |-> "jacqueline", nicks |-> <<"jackie", "jacqui">>],
       [formal |-> "millard", nicks |-> <<"mickey">>] >>

NicksOf(hits) == IF hits = <<>> THEN <<>> ELSE hits[1].nicks

Lookup(first_name) == NicksOf(SelectSeq(nicknames, LAMBDA e : e.formal = first_name))

FormalNames(entries) == [k \in 1..Len(entries) |-> entries[k].formal]

\* AddFormal that stops at the first formal name it adds
FirstOnly(list) == IF list = <<>> THEN <<>> ELSE <<list[1]>>

AddFormalFirst(first_names, first_name) ==
    first_names \o
        FirstOnly(FormalNames(SelectSeq(nicknames,
                                        LAMBDA e : /\ InList(first_name, e.nicks)
                                                   /\ ~InList(e.formal, first_names))))

\* for formal, nicks in nicknames.items(): add the formal names of a nickname
\* (the keys of nicknames are distinct, so a formal name added by this loop
\* is never the one a later pass looks for)
AddFormal(first_names, first_name) ==
    first_names \o
        FormalNames(SelectSeq(nicknames,
                              LAMBDA e : /\ InList(first_name, e.nicks)
                                         /\ ~InList(e.formal, first_names)))

\* for i in range(len(parts) - 1, 0, -1): the last part, after the first, that
\* is no suffix and longer than one character
RECURSIVE ScanLast(_, _)

\* TakeLast without the test for suffixes
TakeLastAny(parts, i, part) ==
    IF Len(part) > 1 THEN <<part>>
    ELSE ScanLast(parts, i - 1)

TakeLast(parts, i, part) ==
    IF part \notin name_suffixes /\ Len(part) > 1 THEN <<part>>
    ELSE ScanLast(parts, i - 1)

\* ScanLast going down to the first token
ScanLastFromFirst(parts, i) == IF i < 1 THEN <<>> ELSE TakeLast(parts, i, lower(parts[i]))

ScanLast(parts, i) == IF i < 2 THEN <<>> ELSE TakeLast(parts, i, lower(parts[i]))

\* the name after the credentials, the dots and the extra whitespace are removed
CleanName(director_name) ==
    strip(ReSubRuns(ReSubRuns(ReSubCredentials(strip(str(director_name)), 1), "dot"),
                    "space"))

\* FirstNames with the nicknames put in the place of the first name
FirstNamesReplaced(first_name) ==
    AddFormal(IF Lookup(first_name) = <<>> THEN <<first_name>> ELSE Lookup(first_name),
              first_name)

\* the first name with its nickname variations
FirstNames(first_name) ==
    AddFormal(<<first_name>> \o Lookup(first_name), first_name)

\* the last name, and for compound last names also the last word
LastNames(parts, last_names, last_part) ==
    IF /\ Len(parts) > 2
       /\ last_part \notin name_suffixes
       /\ ~InList(last_part, last_names)
       /\ Len(last_part) > 1
    THEN Append(last_names, last_part)
    ELSE last_names

NamesOfParts(parts) ==
    IF parts = <<>> THEN [first_names |-> <<>>, last_names |-> <<>>]
    ELSE [first_names |-> FirstNames(lower(parts[1])),
          last_names |-> LastNames(parts, ScanLast(parts, Len(parts)),
                                   lower(parts[Len(parts)]))]

extract_name_parts(director_name) ==
    IF isna(director_name) THEN [first_names |-> <<>>, last_names |-> <<>>]
    ELSE NamesOfParts(split(CleanName(director_name)))

-----------------------------------------------------------------------------
(* clean_company_name_for_matching *)

\* The suffix patterns \s*,?\s*<core>\.?\s*$ in order; dot says whether the
\* pattern has the optional \.? after the core.
company_suffixes ==
    << [core |-> "inc", dot |-> TRUE],
       [core |-> "corp", dot |-> TRUE],
       [core |-> "corporation", dot |-> FALSE],
       [core |-> "ltd", dot |-> TRUE],
       [core |-> "llc", dot |-> FALSE],
       [core |-> "l.l.c", dot |-> TRUE],
       [core |-> "plc", dot |-> FALSE],
       [core |-> "co", dot |-> TRUE],
       [core |-> "company", dot |-> FALSE],
       [core |-> "limited", dot |-> FALSE],
       [core |-> "group", dot |-> FALSE] >>

EndsWith(s, t) == Len(s) >= Len(t) /\ SubSeq(s, Len(s) - Len(t) + 1, Len(s)) = t

DropLast(s, n) == SubSeq(s, 1, Len(s) - n)

\* re.sub(r'\s*,?\s*<core>\.?\s*$', '', name): the leftmost match reaches back
\* over the whitespace, one comma and the whitespace before the core
DropComma(p) == IF EndsWith(p, ",") THEN rstrip(DropLast(p, 1)) ELSE p

DropCore(name, t, core) ==
    IF ~EndsWith(t, core) THEN name ELSE DropComma(rstrip(DropLast(t, Len(core))))

DropDot(t, dot) == IF dot /\ EndsWith(t, ".") THEN DropLast(t, 1) ELSE t

ReSubSuffix(name, suffix) ==
    DropCore(name, DropDot(rstrip(name), suffix.dot), suffix.core)

\* for suffix in suffixes: name = re.sub(suffix, '', name), over the suffixes
\* lo..hi in order: the first half of them, then the second on its result
RECURSIVE StripSuffixes(_, _, _)
StripSuffixes(name, lo, hi) ==
    IF lo = hi THEN ReSubSuffix(name, company_suffixes[lo])
    ELSE CHOOSE r \in {StripSuffixes(n, (lo + hi) \div 2 + 1, hi) :
                           n \in {StripSuffixes(name, lo, (lo + hi) \div 2)}} : TRUE

noise_words == {"the", "a", "an", "and", "or", "of", "in", "at", "by", "for", "on"}

\* the loop over words: keeps the significant ones, in order
\* IsSignificant with "at least 3" for "longer than 3"
IsSignificantFrom3(w, original) ==
    /\ ~(w \in noise_words \/ isdigit(w))
    /\ (Len(w) >= 3 \/ (Len(w) >= 2 /\ upper(w) = original))

IsSignificant(w, original) ==
    /\ ~(w \in noise_words \/ isdigit(w))
    /\ (Len(w) > 3 \/ (Len(w) >= 2 /\ upper(w) = original))

RECURSIVE Significant(_, _)
Significant(words, original) ==
    IF words = <<>> THEN <<>>
    ELSE IF IsSignificant(Head(words), original)
    THEN <<Head(words)>> \o Significant(Tail(words), original)
    ELSE Significant(Tail(words), original)

\* the name in lower case without suffixes and punctuation
CleanCompany(company_name) ==
    strip(ReSubRuns(ReSubPunct(StripSuffixes(lower(str(company_name)), 1, Len(company_suffixes))), "space"))

\* OrOriginal without the special case for short names
OrOriginalNever(significant_words, original) == significant_words

\* if nothing significant remains, keep a short original name
OrOriginal(significant_words, original) ==
    IF significant_words = <<>> /\ 2 <= Len(original) /\ Len(original) <= 4
    THEN <<lower(original)>>
    ELSE significant_words

SignificantWords(words, original) == OrOriginal(Significant(words, original), original)

clean_company_name_for_matching(company_name) ==
    IF isna(company_name) THEN <<>>
    ELSE SignificantWords(split(CleanCompany(company_name)), strip(str(company_name)))

-----------------------------------------------------------------------------
(* verify_name_match, verify_company_match, check_board_role_keywords *)

\* the positions from k on of the names that stand in the title
FoundFrom(names, title_lower, k) ==
    {i \in k..Len(names) : ReSearchWord(names[i], title_lower)}

\* FirstFound without the break: the last name that stands in the title
LastFound(names, title_lower, k) ==
    IF FoundFrom(names, title_lower, k) = {} THEN None
    ELSE Str(names[Max(FoundFrom(names, title_lower, k))])

\* for fn in names: if re.search(...): matched = fn; break
RECURSIVE FirstFound(_, _, _)
FirstFound(names, title_lower, k) ==
    IF k > Len(names) THEN None
    ELSE IF ReSearchWord(names[k], title_lower) THEN Str(names[k])
    ELSE FirstFound(names, title_lower, k + 1)

\* the result of verify_name_match for the names found in the title
NameMatch(matched_first, matched_last) ==
    [verified |-> matched_first # None \/ matched_last # None,
     match_type |->
        IF matched_first # None /\ matched_last # None THEN "both"
        ELSE IF matched_first # None THEN "first_name"
        ELSE IF matched_last # None THEN "last_name"
        ELSE "none",
     matched_first |-> matched_first,
     matched_last |-> matched_last]

NamesFound(name_parts, title_lower) ==
    NameMatch(FirstFound(name_parts.first_names, title_lower, 1),
              FirstFound(name_parts.last_names, title_lower, 1))

verify_name_match(director_name, linkedin_title) ==
    IF isna(director_name) \/ isna(linkedin_title)
    THEN [verified |-> FALSE, match_type |-> "none",
          matched_first |-> None, matched_last |-> None]
    ELSE
    NamesFound(extract_name_parts(director_name), lower(str(linkedin_title)))

\* CompanyMatch asking for more than one word
CompanyMatchSeveral(matched_words) ==
    [company_matched |-> Len(matched_words) > 1, matched_words |-> matched_words]

\* the result of verify_company_match for the words found in the title
CompanyMatch(matched_words) ==
    [company_matched |-> Len(matched_words) > 0, matched_words |-> matched_words]

WordsFound(company_words, title_lower) ==
    IF company_words = <<>>
    THEN [company_matched |-> FALSE, matched_words |-> <<>>]
    ELSE CompanyMatch(SelectSeq(company_words, LAMBDA w : ReSearchWord(w, title_lower)))

verify_company_match(company_name, linkedin_title) ==
    IF isna(company_name) \/ isna(linkedin_title)
    THEN [company_matched |-> FALSE, matched_words |-> <<>>]
    ELSE
    WordsFound(clean_company_name_for_matching(company_name), lower(str(linkedin_title)))

board_keywords ==
    << "board member", "board of directors", "board director", "independent director",
       "non-executive director", "outside director", "board", "director", "trustee",
       "advisory board", "advisory council", "governance", "chairman", "chairwoman",
       "chairperson", "vice chair", "lead director", "presiding director" >>

\* the result of check_board_role_keywords for the keywords found in the title
KeywordMatch(matched_keywords) ==
    [has_board_keyword |-> Len(matched_keywords) > 0, matched_keywords |-> matched_keywords]

\* KeywordsFound with whole-word matching
KeywordsFoundAsWords(title_lower) ==
    KeywordMatch(SelectSeq(board_keywords, LAMBDA keyword : ReSearchWord(keyword, title_lower)))

KeywordsFound(title_lower) ==
    KeywordMatch(SelectSeq(board_keywords, LAMBDA keyword : Contains(title_lower, keyword)))

check_board_role_keywords(linkedin_title) ==
    IF isna(linkedin_title)
    THEN [has_board_keyword |-> FALSE, matched_keywords |-> <<>>]
    ELSE
    KeywordsFound(lower(str(linkedin_title)))

-----------------------------------------------------------------------------
(* The two scoring policies *)

\* GeneralScore with the flag the director policy gives to 70
GeneralScoreFair(has_first, has_last, has_company) ==
    IF has_first /\ has_last /\ has_company
    THEN [match_score |-> 100, quality_flag |-> "EXCELLENT",
          match_type |-> "full_name_and_company"]
    ELSE IF has_first /\ has_last /\ ~has_company
    THEN [match_score |-> 90, quality_flag |-> "GOOD",
          match_type |-> "full_name_no_company"]
    ELSE IF (has_first \/ has_last) /\ has_company
    THEN [match_score |-> 70, quality_flag |-> "FAIR",
          match_type |-> "partial_name_with_company"]
    ELSE IF (has_first \/ has_last) /\ ~has_company
    THEN [match_score |-> 60, quality_flag |-> "WEAK",
          match_type |-> "partial_name_no_company"]
    ELSE IF ~(has_first \/ has_last) /\ has_company
    THEN [match_score |-> 30, quality_flag |-> "WRONG_PERSON",
          match_type |-> "company_only_no_name"]
    ELSE [match_score |-> 0, quality_flag |-> "NO_MATCH", match_type |-> "no_match"]


\* the if/elif chain of verify_name_and_company_match
GeneralScore(has_first, has_last, has_company) ==
    IF has_first /\ has_last /\ has_company
    THEN [match_score |-> 100, quality_flag |-> "EXCELLENT",
          match_type |-> "full_name_and_company"]
    ELSE IF has_first /\ has_last /\ ~has_company
    THEN [match_score |-> 90, quality_flag |-> "GOOD",
          match_type |-> "full_name_no_company"]
    ELSE IF (has_first \/ has_last) /\ has_company
    THEN [match_score |-> 70, quality_flag |-> "GOOD",
          match_type |-> "partial_name_with_company"]
    ELSE IF (has_first \/ has_last) /\ ~has_company
    THEN [match_score |-> 60, quality_flag |-> "WEAK",
          match_type |-> "partial_name_no_company"]
    ELSE IF ~(has_first \/ has_last) /\ has_company
    THEN [match_score |-> 30, quality_flag |-> "WRONG_PERSON",
          match_type |-> "company_only_no_name"]
    ELSE [match_score |-> 0, quality_flag |-> "NO_MATCH", match_type |-> "no_match"]

GeneralThreshold == 70

\* verified = match_score >= 70
GeneralVerified(match_score) == match_score >= GeneralThreshold

\* the record verify_name_and_company_match returns
GeneralResult(name_result, company_result, s) ==
    [match_score |-> s.match_score,
     verified |-> GeneralVerified(s.match_score),
     name_matched |-> name_result.matched_first # None \/ name_result.matched_last # None,
     company_matched |-> company_result.company_matched,
     match_type |-> s.match_type,
     quality_flag |-> s.quality_flag,
     matched_first |-> name_result.matched_first,
     matched_last |-> name_result.matched_last,
     matched_company_words |-> company_result.matched_words]

GeneralMatch(name_result, company_result) ==
    GeneralResult(name_result, company_result,
                  GeneralScore(name_result.matched_first # None,
                               name_result.matched_last # None,
                               company_result.company_matched))

verify_name_and_company_match(director_name, company_name, linkedin_title) ==
    GeneralMatch(verify_name_match(director_name, linkedin_title),
                 verify_company_match(company_name, linkedin_title))

\* DirectorScore with the score of the fourth branch mistyped
DirectorScoreTypo(has_first, has_last, has_company, has_board_keyword) ==
    IF has_first /\ has_last /\ has_board_keyword /\ has_company
    THEN [match_score |-> 100, quality_flag |-> "EXCELLENT",
          match_type |-> "full_name_board_keyword_company"]
    ELSE IF has_first /\ has_last /\ has_board_keyword
    THEN [match_score |-> 95, quality_flag |-> "EXCELLENT",
          match_type |-> "full_name_with_board_keyword"]
    ELSE IF has_first /\ has_last
    THEN [match_score |-> 90, quality_flag |-> "GOOD",
          match_type |-> "full_name_typical_director"]
    ELSE IF (has_first \/ has_last) /\ has_board_keyword /\ has_company
    THEN [match_score |-> 75, quality_flag |-> "GOOD",
          match_type |-> "partial_name_board_keyword_company"]
    ELSE IF (has_first \/ has_last) /\ has_board_keyword
    THEN [match_score |-> 80, quality_flag |-> "GOOD",
          match_type |-> "partial_name_with_board_keyword"]
    ELSE IF has_first /\ has_last /\ has_company
    THEN [match_score |-> 70, quality_flag |-> "FAIR",
          match_type |-> "full_name_company_no_board"]
    ELSE IF has_first \/ has_last
    THEN [match_score |-> 60, quality_flag |-> "WEAK",
          match_type |-> "partial_name_only"]
    ELSE IF has_company
    THEN [match_score |-> 30, quality_flag |-> "WRONG_PERSON",
          match_type |-> "company_only_no_name"]
    ELSE [match_score |-> 0, quality_flag |-> "NO_MATCH", match_type |-> "no_match"]


\* DirectorScore with the fourth and fifth branches in the other order
DirectorScoreSwapped(has_first, has_last, has_company, has_board_keyword) ==
    IF has_first /\ has_last /\ has_board_keyword /\ has_company
    THEN [match_score |-> 100, quality_flag |-> "EXCELLENT",
          match_type |-> "full_name_board_keyword_company"]
    ELSE IF has_first /\ has_last /\ has_board_keyword
    THEN [match_score |-> 95, quality_flag |-> "EXCELLENT",
          match_type |-> "full_name_with_board_keyword"]
    ELSE IF has_first /\ has_last
    THEN [match_score |-> 90, quality_flag |-> "GOOD",
          match_type |-> "full_name_typical_director"]
    ELSE IF (has_first \/ has_last) /\ has_board_keyword
    THEN [match_score |-> 80, quality_flag |-> "GOOD",
          match_type |-> "partial_name_with_board_keyword"]
    ELSE IF (has_first \/ has_last) /\ has_board_keyword /\ has_company
    THEN [match_score |-> 85, quality_flag |-> "GOOD",
          match_type |-> "partial_name_board_keyword_company"]
    ELSE IF has_first /\ has_last /\ has_company
    THEN [match_score |-> 70, quality_flag |-> "FAIR",
          match_type |-> "full_name_company_no_board"]
    ELSE IF has_first \/ has_last
    THEN [match_score |-> 60, quality_flag |-> "WEAK",
          match_type |-> "partial_name_only"]
    ELSE IF has_company
    THEN [match_score |-> 30, quality_flag |-> "WRONG_PERSON",
          match_type |-> "company_only_no_name"]
    ELSE [match_score |-> 0, quality_flag |-> "NO_MATCH", match_type |-> "no_match"]


\* DirectorScore with the full-name-and-company branch (70) tested before the full-name branch (90)
DirectorScoreCompanyFirst(has_first, has_last, has_company, has_board_keyword) ==
    IF has_first /\ has_last /\ has_board_keyword /\ has_company
    THEN [match_score |-> 100, quality_flag |-> "EXCELLENT",
          match_type |-> "full_name_board_keyword_company"]
    ELSE IF has_first /\ has_last /\ has_board_keyword
    THEN [match_score |-> 95, quality_flag |-> "EXCELLENT",
          match_type |-> "full_name_with_board_keyword"]
    ELSE IF has_first /\ has_last /\ has_company
    THEN [match_score |-> 70, quality_flag |-> "FAIR",
          match_type |-> "full_name_company_no_board"]
    ELSE IF has_first /\ has_last
    THEN [match_score |-> 90, quality_flag |-> "GOOD",
          match_type |-> "full_name_typical_director"]
    ELSE IF (has_first \/ has_last) /\ has_board_keyword /\ has_company
    THEN [match_score |-> 85, quality_flag |-> "GOOD",
          match_type |-> "partial_name_board_keyword_company"]
    ELSE IF (has_first \/ has_last) /\ has_board_keyword
    THEN [match_score |-> 80, quality_flag |-> "GOOD",
          match_type |-> "partial_name_with_board_keyword"]
    ELSE IF has_first \/ has_last
    THEN [match_score |-> 60, quality_flag |-> "WEAK",
          match_type |-> "partial_name_only"]
    ELSE IF has_company
    THEN [match_score |-> 30, quality_flag |-> "WRONG_PERSON",
          match_type |-> "company_only_no_name"]
    ELSE [match_score |-> 0, quality_flag |-> "NO_MATCH", match_type |-> "no_match"]


\* the if/elif chain of verify_director_match (the definition in force, the
\* second one of the file)
DirectorScore(has_first, has_last, has_company, has_board_keyword) ==
    IF has_first /\ has_last /\ has_board_keyword /\ has_company
    THEN [match_score |-> 100, quality_flag |-> "EXCELLENT",
          match_type |-> "full_name_board_keyword_company"]
    ELSE IF has_first /\ has_last /\ has_board_keyword
    THEN [match_score |-> 95, quality_flag |-> "EXCELLENT",
          match_type |-> "full_name_with_board_keyword"]
    ELSE IF has_first /\ has_last
    THEN [match_score |-> 90, quality_flag |-> "GOOD",
          match_type |-> "full_name_typical_director"]
    ELSE IF (has_first \/ has_last) /\ has_board_keyword /\ has_company
    THEN [match_score |-> 85, quality_flag |-> "GOOD",
          match_type |-> "partial_name_board_keyword_company"]
    ELSE IF (has_first \/ has_last) /\ has_board_keyword
    THEN [match_score |-> 80, quality_flag |-> "GOOD",
          match_type |-> "partial_name_with_board_keyword"]
    ELSE IF has_first /\ has_last /\ has_company
    THEN [match_score |-> 70, quality_flag |-> "FAIR",
          match_type |-> "full_name_company_no_board"]
    ELSE IF has_first \/ has_last
    THEN [match_score |-> 60, quality_flag |-> "WEAK",
          match_type |-> "partial_name_only"]
    ELSE IF has_company
    THEN [match_score |-> 30, quality_flag |-> "WRONG_PERSON",
          match_type |-> "company_only_no_name"]
    ELSE [match_score |-> 0, quality_flag |-> "NO_MATCH", match_type |-> "no_match"]

DirectorThreshold == 80

\* DirectorVerified with a strict comparison
DirectorVerifiedStrict(match_score) == match_score > DirectorThreshold

\* verified = match_score >= 80
DirectorVerified(match_score) == match_score >= DirectorThreshold

\* the record verify_director_match returns
DirectorResult(name_result, company_result, board_result, s) ==
    [match_score |-> s.match_score,
     verified |-> DirectorVerified(s.match_score),
     name_matched |-> name_result.matched_first # None \/ name_result.matched_last # None,
     company_matched |-> company_result.company_matched,
     board_keyword_matched |-> board_result.has_board_keyword,
     match_type |-> s.match_type,
     quality_flag |-> s.quality_flag,
     matched_first |-> name_result.matched_first,
     matched_last |-> name_result.matched_last,
     matched_company_words |-> company_result.matched_words,
     matched_board_keywords |-> board_result.matched_keywords]

DirectorMatch(name_result, company_result, board_result) ==
    DirectorResult(name_result, company_result, board_result,
                   DirectorScore(name_result.matched_first # None,
                                 name_result.matched_last # None,
                                 company_result.company_matched,
                                 board_result.has_board_keyword))

verify_director_match(director_name, company_name, linkedin_title) ==
    DirectorMatch(verify_name_match(director_name, linkedin_title),
                  verify_company_match(company_name, linkedin_title),
                  check_board_role_keywords(linkedin_title))

-----------------------------------------------------------------------------
(* Inputs *)

MaxRows == 2

ProfileUrl == Str("https://www.linkedin.com/in/tim-cook")

\* titles of search results for "Timothy D. Cook" of "Apple Inc.": each of the
\* four signals present or not, an absent title, and one whose words only
\* contain the name, the company and a keyword inside longer words
Titles ==
    {Str(f \o " " \o l \o " - " \o k \o c \o " | LinkedIn") :
        f \in {"Tim", "Bob"}, l \in {"Cook", "Jones"},
        k \in {"Board Member", "CEO"}, c \in {" at Apple", ""}}
    \cup {NaN, Str("Optimization Cookbook - Onboarding at Pineapple")}

Names == {NaN, Str(""), Str("Timothy D. Cook"), Str("Robert A. Iger, MBA")}

Companies == {NaN, Str("Apple Inc."), Str("BXP")}

Director == Str("Timothy D. Cook")

Company == Str("Apple Inc.")

CsvRow(title, url, status) ==
    [director_name_clean |-> Director, company_name_clean |-> Company,
     linkedin_title |-> title, linkedin_url |-> url, search_status |-> status]

\* the rows of an input file: rows to score, one for each score the scorer
\* gives and one without title, and rows without URL, with a status other
\* than 'found', or with both
CsvRows ==
    {CsvRow(Str("Tim Cook - Board Member at Apple | LinkedIn"), ProfileUrl, "found"),
     CsvRow(Str("Tim Cook - CEO at Apple | LinkedIn"), ProfileUrl, "found"),
     CsvRow(Str("Tim Jones - Board Member | LinkedIn"), ProfileUrl, "found"),
     CsvRow(Str("Bob Cook - CEO | LinkedIn"), ProfileUrl, "found"),
     CsvRow(Str("Bob Jones - CEO at Apple | LinkedIn"), ProfileUrl, "found"),
     CsvRow(NaN, ProfileUrl, "found"),
     CsvRow(NaN, NaN, "not_found"),
     CsvRow(Str("Tim Cook - Board Member at Apple | LinkedIn"), NaN, "found"),
     CsvRow(Str("Tim Cook - Board Member at Apple | LinkedIn"), ProfileUrl, "not_found")}

Tables == UNION {[1..n -> CsvRows] : n \in 0..MaxRows}

NoCall == [fn |-> "none", linkedin_title |-> NaN, ret |-> <<>>]

Subjects == [director_name : Names, company_name : Companies]

\* the results of the two policies on the inputs, tabulated once
director_match ==
    [s \in Subjects, t \in Titles |->
        verify_director_match(s.director_name, s.company_name, t)] @@ <<>>

name_and_company_match ==
    [s \in Subjects, t \in Titles |->
        verify_name_and_company_match(s.director_name, s.company_name, t)] @@ <<>>

-----------------------------------------------------------------------------
(* verify_url_data, as run_verification_standalone runs it *)

\* the thresholds tried, and the number of calls on one table
MinScores == {70, 80, 95}

MaxPasses == 2

quality_flags == {"EXCELLENT", "GOOD", "WEAK", "WRONG_PERSON", "FAIR", "NO_MATCH"}

\* AddColumns leaving the columns of a table that has them already
AddColumnsOnce(row) ==
    IF "match_score" \in DOMAIN row THEN row
    ELSE [c \in DOMAIN row \cup {"match_score", "verified", "quality_flag"} |->
            IF c \in DOMAIN row THEN row[c]
            ELSE IF c = "match_score" THEN 0
            ELSE IF c = "verified" THEN FALSE
            ELSE "NO_MATCH"]

\* the columns verify_url_data adds, with their defaults
AddColumns(row) ==
    [director_name_clean |-> row.director_name_clean,
     company_name_clean |-> row.company_name_clean,
     linkedin_title |-> row.linkedin_title,
     linkedin_url |-> row.linkedin_url,
     search_status |-> row.search_status,
     match_score |-> 0,
     verified |-> FALSE,
     quality_flag |-> "NO_MATCH",
     match_type |-> "no_match",
     name_matched |-> FALSE,
     company_matched |-> FALSE,
     matched_name |-> None,
     matched_company |-> None,
     board_keyword_matched |-> FALSE,
     matched_board_keywords |-> None]

\* IsSkipped with "and" for "or"
IsSkippedBoth(row) == isna(row.linkedin_url) /\ row.search_status # "found"

\* if pd.isna(row.get('linkedin_url')) or row.get('search_status') != 'found'
IsSkipped(row) == isna(row.linkedin_url) \/ row.search_status # "found"

\* FilterApplies with <= for <
FilterAppliesInclusive(filter, match_score, min_score) == filter /\ match_score <= min_score

\* if apply_filter and result['match_score'] < min_match_score
FilterApplies(filter, match_score, min_score) == filter /\ match_score < min_score

\* StoreResult writing the score and the verdict only
StoreResultUnflagged(row, r) ==
    [row EXCEPT !.match_score = r.match_score, !.verified = r.verified]

\* the "Store results" block: the row with the scorer's result written to it
StoreResult(row, r) ==
    [row EXCEPT
        !.match_score = r.match_score,
        !.verified = r.verified,
        !.quality_flag = r.quality_flag,
        !.match_type = r.match_type,
        !.name_matched = r.name_matched,
        !.company_matched = r.company_matched,
        !.board_keyword_matched = r.board_keyword_matched,
        !.matched_name =
            IF r.matched_first # None /\ r.matched_last # None
            THEN Str(str(r.matched_first) \o " " \o str(r.matched_last))
            ELSE IF r.matched_first # None THEN r.matched_first
            ELSE IF r.matched_last # None THEN r.matched_last
            ELSE @,
        !.matched_company =
            IF r.matched_company_words # <<>>
            THEN Str(join(", ", r.matched_company_words)) ELSE @,
        !.matched_board_keywords =
            IF r.matched_board_keywords # <<>>
            THEN Str(join(", ", r.matched_board_keywords)) ELSE @]

\* sum(quality_counts.values())
RECURSIVE SumOver(_, _)
SumOver(f, S) ==
    IF S = {} THEN 0
    ELSE LET x == CHOOSE y \in S : TRUE IN f[x] + SumOver(f, S \ {x})

\* result = verify_director_match(director_name, company_name, title), read
\* from the table of its results
ScoreOf(row) ==
    director_match[[director_name |-> row.director_name_clean,
                    company_name |-> row.company_name_clean], row.linkedin_title]

\* the row after one pass of the loop: the result stored, then the filter
ScoreRow(row, r, filter, min_score) ==
    IF FilterApplies(filter, r.match_score, min_score)
    THEN [StoreResult(row, r) EXCEPT !.linkedin_url = None,
                                     !.search_status = "filtered_low_score"]
    ELSE StoreResult(row, r)

\* df = pd.read_csv(input_file)
read_csv ==
    /\ pc = "read"
    /\ df' = csv
    /\ pc' = "start"
    /\ UNCHANGED <<returned, subject, result, prev, csv, apply_filter, min_match_score, idx,
                   quality_counts, no_url_count, scored, report>>
    /\ UNCHANGED <<scrape_vars, batch_vars>>

\* verify_url_data, up to the loop: the columns and the counters
add_columns ==
    /\ pc = "start"
    /\ df' = [i \in 1..Len(df) |-> AddColumns(df[i])]
    /\ quality_counts' = [q \in quality_flags |-> 0]
    /\ no_url_count' = 0
    /\ idx' = 1
    /\ scored' = {}
    /\ pc' = "loop"
    /\ UNCHANGED <<returned, subject, result, prev, csv, apply_filter, min_match_score, report>>
    /\ UNCHANGED <<scrape_vars, batch_vars>>

\* one pass of the loop for a row without URL or not 'found': continue
skip_row ==
    /\ pc = "loop"
    /\ idx <= Len(df)
    /\ IsSkipped(df[idx])
    /\ no_url_count' = no_url_count + 1
    /\ idx' = idx + 1
    /\ UNCHANGED <<returned, subject, result, prev, csv, df, apply_filter, min_match_score, pc,
                   quality_counts, scored, report>>
    /\ UNCHANGED <<scrape_vars, batch_vars>>

\* one pass of the loop for a row with a URL: score, store, count, filter
score_row ==
    /\ pc = "loop"
    /\ idx <= Len(df)
    /\ ~IsSkipped(df[idx])
    /\ df' = [df EXCEPT ![idx] = ScoreRow(@, ScoreOf(@), apply_filter, min_match_score)]
    /\ quality_counts' = [quality_counts EXCEPT ![ScoreOf(df[idx]).quality_flag] = @ + 1]
    /\ scored' = scored \cup {idx}
    /\ idx' = idx + 1
    /\ UNCHANGED <<returned, subject, result, prev, csv, apply_filter, min_match_score, pc,
                   no_url_count, report>>
    /\ UNCHANGED <<scrape_vars, batch_vars>>

\* the summary printed after the loop, and the return
print_summary ==
    /\ pc = "loop"
    /\ idx > Len(df)
    /\ report' =
        [total_with_urls |-> SumOver(quality_counts, quality_flags),
         no_url_count |-> no_url_count,
         verified_count |-> Cardinality({i \in 1..Len(df) : df[i].verified}),
         filtered_count |->
            IF apply_filter
            THEN <<quality_counts["WEAK"] + quality_counts["WRONG_PERSON"]
                       + quality_counts["NO_MATCH"]>>
            ELSE None]
    /\ pc' = "done"
    /\ returned' = Append(returned, df)
    /\ UNCHANGED <<subject, result, prev, csv, df, apply_filter, min_match_score, idx,
                   quality_counts, no_url_count, scored>>
    /\ UNCHANGED <<scrape_vars, batch_vars>>

-----------------------------------------------------------------------------
(* scrape_posts.py: the batches, the checkpoint and the resume *)

MAX_CONSECUTIVE_FAILURES == 3

\* the runs checked: up to MaxUrls profiles, MaxCalls calls of run_scraping
MaxUrls == 4

MaxCalls == 3

BatchSizes == {1, 2}

NoFile == <<>>

\* an output directory without files
EmptyDir == [checkpoint |-> NoFile, temp_results |-> NoFile, posts_raw |-> NoFile]

\* _save_checkpoint: temp_results.json, then .scrape_checkpoint.json
save_checkpoint(dir, results, profiles_done) ==
    [dir EXCEPT !.temp_results = <<results>>,
                !.checkpoint = <<[profiles_processed |-> profiles_done]>>]

\* _load_checkpoint: None without checkpoint file, no results without results file
load_checkpoint(dir) ==
    IF dir.checkpoint = NoFile THEN None
    ELSE <<[profiles_processed |-> dir.checkpoint[1].profiles_processed,
            previous_results |->
                IF dir.temp_results = NoFile THEN <<>> ELSE dir.temp_results[1]]>>

\* _clear_checkpoint: both files unlinked
clear_checkpoint(dir) == [dir EXCEPT !.checkpoint = NoFile, !.temp_results = NoFile]

\* _save_results: the raw JSON of the run
save_results(dir, raw_data) == [dir EXCEPT !.posts_raw = <<raw_data>>]

\* the locals before the first call of run_scraping
IdleRun ==
    [resume |-> FALSE, start_from |-> 0, previous_results |-> <<>>, i |-> 0,
     all_results |-> <<>>, consecutive_failures |-> 0]

\* the locals of run_scraping after the resume handling, at the head of the loop
Locals(resume, cp) ==
    [resume |-> resume,
     start_from |-> IF cp = None THEN 0 ELSE cp[1].profiles_processed,
     previous_results |-> IF cp = None THEN <<>> ELSE cp[1].previous_results,
     i |-> 0, all_results |-> <<>>, consecutive_failures |-> 0]

\* urls[start_from:][i : i + batch_size]
BatchUrls(all_urls, r, size) ==
    SubSeq(all_urls, r.start_from + r.i + 1,
           Min({r.start_from + r.i + size, Len(all_urls)}))

\* the locals after _call_apify: one item per profile appended and the failures
\* reset, or the failure counted
AfterCall(r, batch_urls, ok) ==
    IF ok THEN [r EXCEPT !.all_results = @ \o batch_urls, !.consecutive_failures = 0]
    ELSE [r EXCEPT !.consecutive_failures = @ + 1]

\* the break out of the loop
Aborts(r, ok) == ~ok /\ r.consecutive_failures >= MAX_CONSECUTIVE_FAILURES

\* checkpoint_cb(all_results, i + len(batch_urls))
Checkpointed(dir, r, done) == save_checkpoint(dir, r.all_results, r.start_from + done)

\* run_scraping after _scrape_batches: the results saved, the checkpoint cleared
Finish(dir, r) == clear_checkpoint(save_results(dir, r.previous_results \o r.all_results))

\* one pass of the loop for the locals r after the call, n profiles in the batch;
\* with the loop left, the rest of run_scraping up to its return
BatchStep(r, ok, n) ==
    IF Aborts(r, ok)
    THEN /\ run' = r
         /\ output_dir' = Finish(output_dir, r)
         /\ scrape_pc' = "returned"
    ELSE IF r.i + batch_size >= Len(urls) - r.start_from
    THEN /\ run' = r
         /\ output_dir' = Finish(Checkpointed(output_dir, r, r.i + n), r)
         /\ scrape_pc' = "returned"
    ELSE /\ run' = [r EXCEPT !.i = @ + batch_size]
         /\ output_dir' = Checkpointed(output_dir, r, r.i + n)
         /\ scrape_pc' = "batches"

\* run_scraping up to the loop: the checkpoint read, the early return
run_scraping ==
    /\ scrape_pc \in {"idle", "returned", "interrupted"}
    /\ calls < MaxCalls
    /\ \E resume \in BOOLEAN :
        run' = Locals(resume, IF resume THEN load_checkpoint(output_dir) ELSE None)
    /\ scrape_pc' = IF run'.start_from >= Len(urls) THEN "returned" ELSE "batches"
    /\ calls' = calls + 1
    /\ UNCHANGED <<urls, batch_size, output_dir>>
    /\ UNCHANGED <<verify_vars, batch_vars>>

\* one batch: the Apify run succeeds with items, or fails
scrape_batch ==
    /\ scrape_pc = "batches"
    /\ \E ok \in BOOLEAN :
        BatchStep(AfterCall(run, BatchUrls(urls, run, batch_size), ok), ok,
                  Len(BatchUrls(urls, run, batch_size)))
    /\ UNCHANGED <<urls, batch_size, calls>>
    /\ UNCHANGED <<verify_vars, batch_vars>>

\* the process is stopped during a batch: no handler runs, the files stay
interrupt ==
    /\ scrape_pc = "batches"
    /\ scrape_pc' = "interrupted"
    /\ UNCHANGED <<urls, batch_size, output_dir, run, calls>>
    /\ UNCHANGED <<verify_vars, batch_vars>>

\* find_linkedin_urls: a checkpoint directory without files
NoFiles == [completed |-> <<>>, checkpoint |-> None, progress |-> None]

\* find_linkedin_urls: the locals of process_batch_file before its first run
IdleJob == [resume |-> TRUE, start_from |-> 0, i |-> 0, df |-> <<>>,
            quota_exceeded |-> FALSE]

\* the URL finder at rest
NoBatch ==
    /\ batch_file = 0
    /\ checkpoint_path = NoFiles
    /\ results_file = None
    /\ job = IdleJob
    /\ batch_pc = "idle"
    /\ batch_runs = 0

\* the scraper at rest, for the specifications of the verifier
NoScrape ==
    /\ urls = <<>>
    /\ batch_size = 1
    /\ output_dir = EmptyDir
    /\ run = IdleRun
    /\ scrape_pc = "idle"
    /\ calls = 0

\* verify_url_data called on the table it returned, with arguments of the
\* caller's choice
verify_again ==
    /\ pc = "done"
    /\ Len(returned) < MaxPasses
    /\ apply_filter' \in BOOLEAN
    /\ min_match_score' \in MinScores
    /\ pc' = "start"
    /\ UNCHANGED <<returned, subject, result, prev, csv, df, idx, quality_counts,
                   no_url_count, scored, report>>
    /\ UNCHANGED <<scrape_vars, batch_vars>>

-----------------------------------------------------------------------------
(* The batch verifier: run_verification_standalone on a file *)

Init ==
    /\ csv \in Tables
    /\ apply_filter \in BOOLEAN
    /\ min_match_score \in MinScores
    /\ df = <<>>
    /\ pc = "read"
    /\ idx = 1
    /\ quality_counts = [q \in quality_flags |-> 0]
    /\ no_url_count = 0
    /\ scored = {}
    /\ report = <<>>
    /\ returned = <<>>
    /\ NoScrape
    /\ NoBatch
    /\ subject = [director_name |-> NaN, company_name |-> NaN]
    /\ result = NoCall
    /\ prev = NoCall

Next ==
    \/ read_csv
    \/ add_columns
    \/ skip_row
    \/ score_row
    \/ print_summary

Spec == Init /\ [][Next]_vars

\* the batch verifier, and verify_url_data called again on what it returned
NextAgain ==
    \/ read_csv
    \/ add_columns
    \/ skip_row
    \/ score_row
    \/ print_summary
    \/ verify_again

SpecAgain == Init /\ [][NextAgain]_vars

-----------------------------------------------------------------------------
(* The scorer: calls of the two policies for one director, title by title *)

CallVerifyDirectorMatch ==
    \E title \in Titles :
        /\ result' = [fn |-> "verify_director_match", linkedin_title |-> title,
                      ret |-> director_match[subject, title]]
        /\ prev' = result
        /\ UNCHANGED <<returned, subject, csv, df, apply_filter, min_match_score, pc, idx,
                       quality_counts, no_url_count, scored, report>>
        /\ UNCHANGED <<scrape_vars, batch_vars>>

CallVerifyNameAndCompanyMatch ==
    \E title \in Titles :
        /\ result' = [fn |-> "verify_name_and_company_match", linkedin_title |-> title,
                      ret |-> name_and_company_match[subject, title]]
        /\ prev' = result
        /\ UNCHANGED <<returned, subject, csv, df, apply_filter, min_match_score, pc, idx,
                       quality_counts, no_url_count, scored, report>>
        /\ UNCHANGED <<scrape_vars, batch_vars>>

InitScore ==
    /\ subject \in Subjects
    /\ result = NoCall
    /\ prev = NoCall
    /\ csv = <<>>
    /\ df = <<>>
    /\ apply_filter = FALSE
    /\ min_match_score = 70
    /\ pc = "idle"
    /\ idx = 1
    /\ quality_counts = [q \in quality_flags |-> 0]
    /\ no_url_count = 0
    /\ scored = {}
    /\ report = <<>>
    /\ returned = <<>>
    /\ NoScrape
    /\ NoBatch

NextScore ==
    \/ CallVerifyDirectorMatch
    \/ CallVerifyNameAndCompanyMatch

SpecScore == InitScore /\ [][NextScore]_vars

-----------------------------------------------------------------------------
(* The matchers' parts: calls of extract_name_parts,
   clean_company_name_for_matching and verify_company_match on one input *)

\* every first name of the nickname table, formal or nickname
TableNames ==
    {nicknames[k].formal : k \in 1..Len(nicknames)}
        \cup UNION {{nicknames[k].nicks[j] : j \in 1..Len(nicknames[k].nicks)} :
                        k \in 1..Len(nicknames)}

\* director names: each first name of the table, and names with initials,
\* credentials, suffixes, compound last names, one token, none
RawNames ==
    {Str(n \o " Smith") : n \in TableNames}
        \cup {NaN, Str(""), Str("  "), Str("Cook"), Str("MBA"),
              Str("Timothy D. Cook"), Str("Millard S. Drexler"),
              Str("J. Robert Smith"), Str("MBA Smith"), Str("J.D. Power III"),
              Str("Jane A. Smith, Ph.D."), Str("John Smith Jr."),
              Str("William H Gates 3rd"), Str("Bob de la Cruz"),
              Str("Robert A. Iger, MBA"), Str("Mary Ann X"), Str("Ann Lee Jr"),
              Str("A B"), Str("Xi Li Li")}

\* company names: with and without legal suffix, acronyms, stoplist words,
\* digits, punctuation, short and empty names
RawCompanies ==
    {NaN, Str(""), Str("  "), Str("a"), Str("At"), Str("The"), Str("Of The"),
     Str("42"), Str("Apple Inc."), Str("BXP"), Str("Bxp"), Str(" RTX "),
     Str("IBM"), Str("ABCD"), Str("AB!"), Str("inc"), Str("3M Co"),
     Str("KLA Corp."), Str("US Co."), Str("Acme, L.L.C."), Str("A and B, Inc"),
     Str("The Coca-Cola Company"), Str("Home & Garden Limited"),
     Str("Foo Inc Group"), Str("Abc Def"), Str("Ab Cd Ef"), Str("Zinc"),
     Str("The Gap, Inc.")}

PartTitles ==
    {NaN, Str(""), Str("Tim Cook - CEO at Apple | LinkedIn"), Str("Director|bxp."),
     Str("Pineapple and Zinc3 - RTX, IBM | LinkedIn"),
     Str("Chairman of coca-cola company; home, garden & gap"),
     Str("Head of Home Depot and Coca-Cola HBC"),
     Str("a b ab cd ef abc def us kla acme foo 3m 42 at the inc")}

CallExtractNameParts ==
    /\ pc = "parts"
    /\ result' = [fn |-> "extract_name_parts", linkedin_title |-> NaN,
                  ret |-> extract_name_parts(subject.director_name)]
    /\ UNCHANGED <<returned, subject, prev, csv, df, apply_filter, min_match_score, pc, idx,
                   quality_counts, no_url_count, scored, report>>
    /\ UNCHANGED <<scrape_vars, batch_vars>>

CallCleanCompanyName ==
    /\ pc = "parts"
    /\ result' = [fn |-> "clean_company_name_for_matching", linkedin_title |-> NaN,
                  ret |-> clean_company_name_for_matching(subject.company_name)]
    /\ UNCHANGED <<returned, subject, prev, csv, df, apply_filter, min_match_score, pc, idx,
                   quality_counts, no_url_count, scored, report>>
    /\ UNCHANGED <<scrape_vars, batch_vars>>

\* titles with the first name, a nickname, both in either order, or neither
NameTitles ==
    {NaN, Str(""), Str("Tim Cook - CEO at Apple | LinkedIn"),
     Str("Tim and Timothy Cook | LinkedIn"), Str("Timothy (Tim) Cook"),
     Str("Optimization of Cooking by Smithson"),
     Str("Bob Smith, Robert Iger and Mickey Drexler"),
     Str("Michael MILLARD - Smith & Gates, 3rd floor")}

CallVerifyNameMatch ==
    /\ pc = "parts"
    /\ \E title \in NameTitles :
        result' = [fn |-> "verify_name_match", linkedin_title |-> title,
                   ret |-> verify_name_match(subject.director_name, title)]
    /\ UNCHANGED <<returned, subject, prev, csv, df, apply_filter, min_match_score, pc, idx,
                   quality_counts, no_url_count, scored, report>>
    /\ UNCHANGED <<scrape_vars, batch_vars>>

\* titles with role phrases as words, inside words, in upper case, or none
KeywordTitles ==
    {NaN, Str(""), Str("Tim Cook - CEO at Apple | LinkedIn"),
     Str("Chairman of the Board of Directors; Lead Director"),
     Str("Onboarding specialist"), Str("Directory editor - Governance"),
     Str("TRUSTEE and Vice Chairwoman, Advisory Board Member")}

CallCheckBoardRoleKeywords ==
    /\ pc = "parts"
    /\ \E title \in KeywordTitles :
        result' = [fn |-> "check_board_role_keywords", linkedin_title |-> title,
                   ret |-> check_board_role_keywords(title)]
    /\ UNCHANGED <<returned, subject, prev, csv, df, apply_filter, min_match_score, pc, idx,
                   quality_counts, no_url_count, scored, report>>
    /\ UNCHANGED <<scrape_vars, batch_vars>>

CallVerifyCompanyMatch ==
    /\ pc = "parts"
    /\ \E title \in PartTitles :
        result' = [fn |-> "verify_company_match", linkedin_title |-> title,
                   ret |-> verify_company_match(subject.company_name, title)]
    /\ UNCHANGED <<returned, subject, prev, csv, df, apply_filter, min_match_score, pc, idx,
                   quality_counts, no_url_count, scored, report>>
    /\ UNCHANGED <<scrape_vars, batch_vars>>

\* one input: a director name, or a company name
InitParts ==
    /\ subject \in {[director_name |-> n, company_name |-> NaN] : n \in RawNames}
                    \cup {[director_name |-> NaN, company_name |-> c] : c \in RawCompanies}
    /\ result = NoCall
    /\ prev = NoCall
    /\ csv = <<>>
    /\ df = <<>>
    /\ apply_filter = FALSE
    /\ min_match_score = 70
    /\ pc = "parts"
    /\ idx = 1
    /\ quality_counts = [q \in quality_flags |-> 0]
    /\ no_url_count = 0
    /\ scored = {}
    /\ report = <<>>
    /\ returned = <<>>
    /\ NoScrape
    /\ NoBatch

NextParts ==
    \/ CallExtractNameParts
    \/ CallCleanCompanyName
    \/ CallVerifyCompanyMatch
    \/ CallVerifyNameMatch
    \/ CallCheckBoardRoleKeywords

SpecParts == InitParts /\ [][NextParts]_vars

-----------------------------------------------------------------------------
(* compare_verification_modes.py: analyze_verification_modes on a file *)

\* the rows of df[has_url]
UrlRows(table) == SelectSeq(table, LAMBDA row : ~isna(row.linkedin_url))

NoCounts ==
    [strict_verified |-> 0, lenient_verified |-> 0, both_names |-> 0,
     first_only |-> 0, last_only |-> 0, neither |-> 0]

\* the counters after the result r of verify_name_match for one row
Tally(counts, r) ==
    [strict_verified |-> counts.strict_verified + (IF r.verified THEN 1 ELSE 0),
     lenient_verified |->
        counts.lenient_verified
            + (IF r.matched_first # None \/ r.matched_last # None THEN 1 ELSE 0),
     both_names |->
        counts.both_names
            + (IF r.matched_first # None /\ r.matched_last # None THEN 1 ELSE 0),
     first_only |->
        counts.first_only
            + (IF r.matched_first # None /\ r.matched_last = None THEN 1 ELSE 0),
     last_only |->
        counts.last_only
            + (IF r.matched_first = None /\ r.matched_last # None THEN 1 ELSE 0),
     neither |->
        counts.neither
            + (IF r.matched_first = None /\ r.matched_last = None THEN 1 ELSE 0)]

\* the file read, the rows with URL counted: nothing returned without any
analyze_start ==
    /\ pc = "compare"
    /\ df' = csv
    /\ idx' = 1
    /\ IF Len(UrlRows(csv)) = 0
       THEN report' = None /\ pc' = "compared"
       ELSE report' = <<NoCounts>> /\ pc' = "compare_loop"
    /\ UNCHANGED <<returned, subject, result, prev, csv, apply_filter, min_match_score,
                   quality_counts, no_url_count, scored>>
    /\ UNCHANGED <<scrape_vars, batch_vars>>

\* one pass of the loop over the rows with URL; after the last, the return
compare_row ==
    /\ pc = "compare_loop"
    /\ idx <= Len(UrlRows(df))
    /\ report' = <<Tally(report[1],
                         verify_name_match(UrlRows(df)[idx].director_name_clean,
                                           UrlRows(df)[idx].linkedin_title))>>
    /\ idx' = idx + 1
    /\ pc' = IF idx + 1 > Len(UrlRows(df)) THEN "compared" ELSE "compare_loop"
    /\ UNCHANGED <<returned, subject, result, prev, csv, df, apply_filter, min_match_score,
                   quality_counts, no_url_count, scored>>
    /\ UNCHANGED <<scrape_vars, batch_vars>>

InitModes ==
    /\ csv \in Tables
    /\ df = <<>>
    /\ pc = "compare"
    /\ idx = 1
    /\ report = <<>>
    /\ returned = <<>>
    /\ subject = [director_name |-> NaN, company_name |-> NaN]
    /\ result = NoCall
    /\ prev = NoCall
    /\ apply_filter = FALSE
    /\ min_match_score = 70
    /\ quality_counts = [q \in quality_flags |-> 0]
    /\ no_url_count = 0
    /\ scored = {}
    /\ NoScrape
    /\ NoBatch

NextModes ==
    \/ analyze_start
    \/ compare_row

SpecModes == InitModes /\ [][NextModes]_vars

-----------------------------------------------------------------------------
(* find_linkedin_urls_sp500.py: search_linkedin_profile on the replies of
   the search API.  A field of its result that may be None is an optional
   value. *)

retries == 3

\* the longest list of results drawn
MaxItems == 2

\* 'linkedin.com/in/' in link
IsProfileLink(link) == Contains(link, "linkedin.com/in/")

\* if director_name and company_name: a NaN cell of the table is true, an
\* empty string is not
Truthy(v) == isna(v) \/ str(v) # ""

\* the result for an item the scorer was asked about
Found(item, r, verified) ==
    [url |-> Str(item.link), title |-> Str(item.title), status |-> "found",
     match_score |-> <<r.match_score>>, verified |-> <<verified>>,
     quality_flag |-> Str(r.quality_flag), match_type |-> Str(r.match_type),
     name_matched |-> <<r.name_matched>>, company_matched |-> <<r.company_matched>>]

\* the result for the first profile without verification info
FoundUnscored(item) ==
    [url |-> Str(item.link), title |-> Str(item.title), status |-> "found",
     match_score |-> None, verified |-> None, quality_flag |-> None, match_type |-> None,
     name_matched |-> None, company_matched |-> None]

NotFound ==
    [url |-> None, title |-> None, status |-> "not_found", match_score |-> <<0>>,
     verified |-> None, quality_flag |-> Str("NO_MATCH"), match_type |-> Str("no_match"),
     name_matched |-> <<FALSE>>, company_matched |-> <<FALSE>>]

\* the result for a reply that ends the search without items
Failed(status) ==
    [url |-> None, title |-> None, status |-> status, match_score |-> <<0>>,
     verified |-> None, quality_flag |-> None, match_type |-> None,
     name_matched |-> None, company_matched |-> None]

\* verify_director_match(director_name, company_name, title), read from the
\* table of its results
Verdict(director_name, company_name, title) ==
    director_match[[director_name |-> director_name, company_name |-> company_name],
                   Str(title)]

\* the loop over the items with verification: the first verified profile, or
\* the best of the others; best is None or the result kept so far
RECURSIVE ScanItems(_, _, _, _, _)
\* one profile of the loop, r the scorer's result for it
ScanItem(items, k, director_name, company_name, best, r) ==
    IF r.verified THEN <<Found(items[k], r, TRUE)>>
    ELSE IF r.match_score > (IF best = None THEN 0 ELSE best[1].match_score[1])
    THEN ScanItems(items, k + 1, director_name, company_name, <<Found(items[k], r, FALSE)>>)
    ELSE ScanItems(items, k + 1, director_name, company_name, best)

ScanItems(items, k, director_name, company_name, best) ==
    IF k > Len(items) THEN best
    ELSE IF ~IsProfileLink(items[k].link)
    THEN ScanItems(items, k + 1, director_name, company_name, best)
    ELSE ScanItem(items, k, director_name, company_name, best,
                  Verdict(director_name, company_name, items[k].title))

\* the loop over the items without verification: the first profile
FirstProfile(items) ==
    IF \E k \in 1..Len(items) : IsProfileLink(items[k].link)
    THEN <<FoundUnscored(items[Min({k \in 1..Len(items) : IsProfileLink(items[k].link)})])>>
    ELSE None

\* the result for a 200 reply
OnItems(items, director_name, company_name) ==
    IF Truthy(director_name) /\ Truthy(company_name)
    THEN IF ScanItems(items, 1, director_name, company_name, None) # None
         THEN ScanItems(items, 1, director_name, company_name, None)[1]
         ELSE NotFound
    ELSE IF FirstProfile(items) # None THEN FirstProfile(items)[1] ELSE NotFound

\* the attempts of the retry loop on the replies, one reply for each attempt
RECURSIVE Attempt(_, _, _, _)
Attempt(replies, attempt, director_name, company_name) ==
    IF attempt > retries THEN Failed("max_retries")
    ELSE IF replies[attempt].kind = "200"
    THEN OnItems(replies[attempt].items, director_name, company_name)
    ELSE IF replies[attempt].kind \in {"429", "timeout"}
    THEN Attempt(replies, attempt + 1, director_name, company_name)
    ELSE IF replies[attempt].kind = "403" THEN Failed("quota_exceeded")
    ELSE IF replies[attempt].kind = "500" THEN Failed("error_500")
    ELSE Failed("exception")

search_linkedin_profile(replies, director_name, company_name) ==
    Attempt(replies, 1, director_name, company_name)

\* results of a search: profiles the scorer gives 100, 90, 80, 30 and 0 for
\* "Timothy D. Cook" of "Apple Inc.", and a page that is no profile
Item(link, title) == [link |-> link, title |-> title]

ItemPool ==
    {Item("https://www.linkedin.com/in/tim-cook-1", "Tim Cook - Board Member at Apple | LinkedIn"),
     Item("https://www.linkedin.com/in/tim-cook-2", "Tim Cook - CEO at Apple | LinkedIn"),
     Item("https://www.linkedin.com/in/tim-jones", "Tim Jones - Board Member | LinkedIn"),
     Item("https://www.linkedin.com/in/bob-jones-1", "Bob Jones - CEO at Apple | LinkedIn"),
     Item("https://www.linkedin.com/in/bob-jones-2", "Bob Jones - CEO | LinkedIn"),
     Item("https://www.linkedin.com/company/apple", "Tim Cook - Board Member at Apple | LinkedIn")}

ItemLists == UNION {[1..n -> ItemPool] : n \in 0..MaxItems}

Reply(kind, items) == [kind |-> kind, items |-> items]

\* the replies that end the search
LastReplies ==
    {Reply("200", items) : items \in ItemLists}
        \cup {Reply(kind, <<>>) : kind \in {"403", "500", "exception"}}

\* p replies that make the loop try again
Retried(p) == [a \in 1..p |-> Reply(IF a % 2 = 1 THEN "429" ELSE "timeout", <<>>)]

\* the replies of one call: a last reply after fewer than retries attempts,
\* or no last reply
ReplySeqs ==
    {Retried(p) \o <<last>> : p \in 0..(retries - 1), last \in LastReplies}
        \cup {Retried(retries)}

CallSearchLinkedinProfile ==
    /\ pc = "search"
    /\ \E replies \in ReplySeqs :
        result' = [fn |-> "search_linkedin_profile", linkedin_title |-> NaN,
                   replies |-> replies,
                   ret |-> search_linkedin_profile(replies, subject.director_name,
                                                   subject.company_name)]
    /\ UNCHANGED <<returned, subject, prev, csv, df, apply_filter, min_match_score, pc, idx,
                   quality_counts, no_url_count, scored, report>>
    /\ UNCHANGED <<scrape_vars, batch_vars>>

InitSearch ==
    /\ subject \in Subjects
    /\ result = NoCall
    /\ prev = NoCall
    /\ csv = <<>>
    /\ df = <<>>
    /\ apply_filter = FALSE
    /\ min_match_score = 70
    /\ pc = "search"
    /\ idx = 1
    /\ quality_counts = [q \in quality_flags |-> 0]
    /\ no_url_count = 0
    /\ scored = {}
    /\ report = <<>>
    /\ returned = <<>>
    /\ NoScrape
    /\ NoBatch

NextSearch == CallSearchLinkedinProfile

SpecSearch == InitSearch /\ [][NextSearch]_vars

-----------------------------------------------------------------------------
(* The scraper: calls of run_scraping on one output directory *)

\* the verifier at rest
NoVerify ==
    /\ subject = [director_name |-> NaN, company_name |-> NaN]
    /\ result = NoCall
    /\ prev = NoCall
    /\ csv = <<>>
    /\ df = <<>>
    /\ apply_filter = FALSE
    /\ min_match_score = 70
    /\ pc = "idle"
    /\ idx = 1
    /\ quality_counts = [q \in quality_flags |-> 0]
    /\ no_url_count = 0
    /\ scored = {}
    /\ report = <<>>
    /\ returned = <<>>

\* a fresh output directory, up to MaxUrls profiles
InitScrape ==
    /\ urls \in {[k \in 1..n |-> k] : n \in 0..MaxUrls}
    /\ batch_size \in BatchSizes
    /\ output_dir = EmptyDir
    /\ run = IdleRun
    /\ scrape_pc = "idle"
    /\ calls = 0
    /\ NoVerify
    /\ NoBatch

NextScrape ==
    \/ run_scraping
    \/ scrape_batch
    \/ interrupt

SpecScrape == InitScrape /\ [][NextScrape]_vars

-----------------------------------------------------------------------------
(* The URL finder: runs of process_batch_file on one batch file.  A table  *)
(* is its search_status column, one optional status per query; the index i *)
(* of the code counts from 0 and is position i + 1 of the column.  Every   *)
(* status other than quota_exceeded takes the same path through the loop,  *)
(* and "found" stands for them.                                            *)

SAVE_EVERY_N_QUERIES == 25
MaxQueries == 27
MaxRuns == 3
batch_num == 1

Statuses == {"found", "quota_exceeded"}

\* pd.read_csv(batch_file): no query has a status yet
ReadBatchFile(total) == [k \in 1..total |-> None]

save_batch_checkpoint(dir, d, queries_processed) ==
    [dir EXCEPT !.progress = <<d>>,
                !.checkpoint = <<[batch_num |-> batch_num,
                                  queries_processed |-> queries_processed]>>]

load_checkpoint_of_batch(dir) == dir.checkpoint

\* process_batch_file up to the call of find_linkedin_urls_batch
StartOf(dir, total, resume) ==
    LET checkpoint == load_checkpoint_of_batch(dir) IN
    IF resume /\ checkpoint # None
    THEN IF dir.progress # None
         THEN [start_from |-> checkpoint[1].queries_processed, df |-> dir.progress[1]]
         ELSE [start_from |-> 0, df |-> ReadBatchFile(total)]
    ELSE [start_from |-> 0, df |-> ReadBatchFile(total)]

\* queries_df.iloc[i, search_status] = result['status']
StoreStatus(d, i, status) == [d EXCEPT ![i + 1] = Str(status)]

\* the checkpoint written for every status, quota_exceeded included
AfterQueryAlways(dir, d, i, status) ==
    IF (i + 1) % SAVE_EVERY_N_QUERIES = 0
    THEN save_batch_checkpoint(dir, d, i + 1)
    ELSE dir

\* the checkpoint directory after query i: the break comes before the
\* checkpoint callback
AfterQuery(dir, d, i, status) ==
    IF status = "quota_exceeded"
    THEN dir
    ELSE IF (i + 1) % SAVE_EVERY_N_QUERIES = 0
         THEN save_batch_checkpoint(dir, d, i + 1)
         ELSE dir

\* the end of process_batch_file: the completion line and the clean-up
Completed(dir, quota_exceeded) ==
    IF ~quota_exceeded
    THEN [dir EXCEPT !.completed = Append(@, batch_num),
                     !.checkpoint = None,
                     !.progress = None]
    ELSE dir

process_batch_file ==
    /\ batch_pc = "idle"
    /\ batch_runs < MaxRuns
    /\ \E resume \in BOOLEAN :
        LET s == StartOf(checkpoint_path, batch_file, resume) IN
        /\ job' = [resume |-> resume, start_from |-> s.start_from, i |-> s.start_from,
                   df |-> s.df, quota_exceeded |-> FALSE]
        /\ batch_pc' = IF s.start_from < batch_file THEN "loop" ELSE "save"
    /\ batch_runs' = batch_runs + 1
    /\ UNCHANGED <<batch_file, checkpoint_path, results_file>>
    /\ UNCHANGED <<verify_vars, scrape_vars>>

\* one pass of the loop of find_linkedin_urls_batch
query_batch ==
    /\ batch_pc = "loop"
    /\ \E status \in Statuses :
        LET d == StoreStatus(job.df, job.i, status) IN
        /\ checkpoint_path' = AfterQuery(checkpoint_path, d, job.i, status)
        /\ IF status = "quota_exceeded"
           THEN /\ job' = [job EXCEPT !.df = d, !.quota_exceeded = TRUE]
                /\ batch_pc' = "save"
           ELSE /\ job' = [job EXCEPT !.df = d, !.i = @ + 1]
                /\ batch_pc' = IF job.i + 1 < batch_file THEN "loop" ELSE "save"
    /\ UNCHANGED <<batch_file, results_file, batch_runs>>
    /\ UNCHANGED <<verify_vars, scrape_vars>>

\* process_batch_file after the call: the results file, the completion
save_batch ==
    /\ batch_pc = "save"
    /\ results_file' = <<job.df>>
    /\ checkpoint_path' = Completed(checkpoint_path, job.quota_exceeded)
    /\ batch_pc' = "idle"
    /\ UNCHANGED <<batch_file, job, batch_runs>>
    /\ UNCHANGED <<verify_vars, scrape_vars>>

\* a batch file of at least one query, nothing run yet
InitBatch ==
    /\ batch_file \in {2, SAVE_EVERY_N_QUERIES, MaxQueries}
    /\ checkpoint_path = NoFiles
    /\ results_file = None
    /\ job = IdleJob
    /\ batch_pc = "idle"
    /\ batch_runs = 0
    /\ NoVerify
    /\ NoScrape

NextBatch ==
    \/ process_batch_file
    \/ query_batch
    \/ save_batch

SpecBatch == InitBatch /\ [][NextBatch]_vars

-----------------------------------------------------------------------------
(* Properties of the scorer, under SpecScore *)

IsDirectorCall(c) == c.fn = "verify_director_match"
IsGeneralCall(c) == c.fn = "verify_name_and_company_match"
IsCall(c) == IsDirectorCall(c) \/ IsGeneralCall(c)

HasFirst(c) == c.ret.matched_first # None
HasLast(c) == c.ret.matched_last # None
HasCompany(c) == c.ret.company_matched
HasKeyword(c) == c.ret.board_keyword_matched
FullName(c) == HasFirst(c) /\ HasLast(c)
OneName(c) == HasFirst(c) # HasLast(c)
NoName(c) == ~HasFirst(c) /\ ~HasLast(c)

DirectorScores == {0, 30, 60, 70, 80, 85, 90, 95, 100}

\* C1: the match_score of every verify_director_match result, absent
\* arguments included, is one of 0, 30, 60, 70, 80, 85, 90, 95, 100.
C1_ScoreInFixedSet ==
    IsDirectorCall(result) => result.ret.match_score \in DirectorScores

\* a call with full name and keyword but an absent company (95), after a call
\* with an absent title (0)
C1_Witness ==
    /\ IsDirectorCall(result) /\ IsDirectorCall(prev)
    /\ isna(subject.company_name)
    /\ result.ret.match_score = 95
    /\ isna(prev.linkedin_title)
    /\ prev.ret.match_score = 0

\* C2: with first name, last name and company matched and no board keyword,
\* verify_director_match returns 70, FAIR, verified = false.
C2_FullNameCompanyNoKeywordIs70 ==
    (IsDirectorCall(result) /\ FullName(result) /\ HasCompany(result) /\ ~HasKeyword(result))
        => /\ result.ret.match_score = 70
           /\ result.ret.quality_flag = "FAIR"
           /\ result.ret.verified = FALSE

\* The nine rows of the director table: the signals a row names, its score
\* and its flag.
DirectorTable ==
    << [full |-> TRUE, partial |-> FALSE, keyword |-> TRUE, company |-> TRUE,
        score |-> 100, flag |-> "EXCELLENT"],
       [full |-> TRUE, partial |-> FALSE, keyword |-> TRUE, company |-> FALSE,
        score |-> 95, flag |-> "EXCELLENT"],
       [full |-> TRUE, partial |-> FALSE, keyword |-> FALSE, company |-> FALSE,
        score |-> 90, flag |-> "GOOD"],
       [full |-> FALSE, partial |-> TRUE, keyword |-> TRUE, company |-> TRUE,
        score |-> 85, flag |-> "GOOD"],
       [full |-> FALSE, partial |-> TRUE, keyword |-> TRUE, company |-> FALSE,
        score |-> 80, flag |-> "GOOD"],
       [full |-> TRUE, partial |-> FALSE, keyword |-> FALSE, company |-> TRUE,
        score |-> 70, flag |-> "FAIR"],
       [full |-> FALSE, partial |-> TRUE, keyword |-> FALSE, company |-> FALSE,
        score |-> 60, flag |-> "WEAK"],
       [full |-> FALSE, partial |-> FALSE, keyword |-> FALSE, company |-> TRUE,
        score |-> 30, flag |-> "WRONG_PERSON"],
       [full |-> FALSE, partial |-> FALSE, keyword |-> FALSE, company |-> FALSE,
        score |-> 0, flag |-> "NO_MATCH"] >>

\* a row matches when every signal it names is present
RowMatches(row, c) ==
    /\ row.full => FullName(c)
    /\ row.partial => (HasFirst(c) \/ HasLast(c))
    /\ row.keyword => HasKeyword(c)
    /\ row.company => HasCompany(c)

FirstMatchingRow(c) ==
    LET k == CHOOSE i \in 1..Len(DirectorTable) :
                /\ RowMatches(DirectorTable[i], c)
                /\ \A j \in 1..(i - 1) : ~RowMatches(DirectorTable[j], c)
    IN  DirectorTable[k]

C4_VerifiedIffAtLeast80 ==
    IsDirectorCall(result) =>
        /\ result.ret.verified <=> result.ret.match_score >= 80
        /\ OneName(result) => (result.ret.verified <=> HasKeyword(result))
        /\ (FullName(result) /\ ~HasKeyword(result) /\ ~HasCompany(result))
                => (result.ret.verified /\ result.ret.match_score = 90)
        /\ NoName(result) => ~result.ret.verified

\* one name with a keyword, verified at 80, after the same director with one
\* name and no keyword, not verified
C4_Witness ==
    /\ IsDirectorCall(result) /\ IsDirectorCall(prev)
    /\ OneName(result) /\ HasKeyword(result) /\ ~HasCompany(result)
    /\ result.ret.match_score = 80 /\ result.ret.verified
    /\ OneName(prev) /\ ~HasKeyword(prev) /\ ~prev.ret.verified

C6_VerifiedNeedsNameAndCompany ==
    (IsGeneralCall(result) /\ result.ret.verified)
        => (result.ret.name_matched /\ result.ret.company_matched)

-----------------------------------------------------------------------------
(* Properties of verify_url_data, under Spec *)

InLoopOrAfter == pc \in {"loop", "done"}

\* the row of the input file has no URL or a status other than 'found'
Unsearched(i) == isna(csv[i].linkedin_url) \/ csv[i].search_status # "found"

\* C9: a row without URL or with a status other than 'found' is never handed
\* to the scorer, stays at score 0, unverified, NO_MATCH, is counted as "no
\* URL" and under no quality flag; when every row is such a row the summary
\* reports 0 scored rows.
C9_UnsearchedRowsSkipped ==
    InLoopOrAfter =>
        /\ \A i \in scored : ~Unsearched(i)
        /\ \A i \in 1..Len(df) :
                Unsearched(i) => /\ df[i].match_score = 0
                                 /\ df[i].verified = FALSE
                                 /\ df[i].quality_flag = "NO_MATCH"
        /\ no_url_count = Cardinality({i \in 1..(idx - 1) : Unsearched(i)})
        /\ SumOver(quality_counts, quality_flags)
                = Cardinality({i \in 1..(idx - 1) : ~Unsearched(i)})
        /\ (pc = "done" /\ \A i \in 1..Len(df) : Unsearched(i))
                => (report.total_with_urls = 0 /\ report.no_url_count = Len(df))

\* a finished run on a file of rows that are all skipped, one with a URL and
\* another status, one 'found' without URL
C9_Witness ==
    /\ pc = "done"
    /\ Len(df) >= 2
    /\ \A i \in 1..Len(df) : Unsearched(i)
    /\ \E i \in 1..Len(df) : ~isna(csv[i].linkedin_url)
    /\ \E i \in 1..Len(df) : csv[i].search_status = "found"
    /\ report.total_with_urls = 0
    /\ report.no_url_count = Len(df)

Changed(i) ==
    \/ df[i].linkedin_url # csv[i].linkedin_url
    \/ df[i].search_status # csv[i].search_status

Scorer(i) ==
    verify_director_match(csv[i].director_name_clean, csv[i].company_name_clean,
                          csv[i].linkedin_title)

\* C10: verify_url_data changes linkedin_url and search_status of a row iff
\* apply_filter is set, the row was scored and its score is below
\* min_match_score; the URL is then empty, the status 'filtered_low_score',
\* and the match columns are those the scorer gave.
C10_FilterChangesOnlyUrlAndStatus ==
    InLoopOrAfter =>
        \A i \in 1..Len(df) :
            /\ Changed(i) <=> (/\ apply_filter
                               /\ i \in scored
                               /\ df[i].match_score < min_match_score)
            /\ Changed(i) =>
                /\ df[i].linkedin_url = None
                /\ df[i].search_status = "filtered_low_score"
                /\ df[i].match_score = Scorer(i).match_score
                /\ df[i].quality_flag = Scorer(i).quality_flag
                /\ df[i].verified = Scorer(i).verified
                /\ df[i].match_type = Scorer(i).match_type
                /\ df[i].name_matched = Scorer(i).name_matched
                /\ df[i].company_matched = Scorer(i).company_matched
                /\ df[i].board_keyword_matched = Scorer(i).board_keyword_matched

\* a finished filtering run: a row of score 60 filtered, a row at the
\* threshold kept
C10_Witness ==
    /\ pc = "done"
    /\ apply_filter
    /\ \E i \in 1..Len(df) :
        /\ df[i].match_score = 60
        /\ df[i].linkedin_url = None
        /\ df[i].search_status = "filtered_low_score"
        /\ df[i].quality_flag = "WEAK"
    /\ \E i \in 1..Len(df) :
        /\ df[i].match_score = min_match_score
        /\ df[i].linkedin_url = ProfileUrl
        /\ df[i].search_status = "found"

\* the scored rows of the finished run whose score is at or above the threshold
AtOrAbove == {i \in scored : df[i].match_score >= min_match_score}

\* C11: for every min_match_score the 'verified' column of each scored row is
\* (match_score >= min_match_score), and the reported "Verified (score >=
\* min_match_score)" count is the number of rows at or above that threshold.
C11_VerifiedIsAtOrAboveMinScore ==
    pc = "done" =>
        /\ \A i \in scored : df[i].verified = (df[i].match_score >= min_match_score)
        /\ report.verified_count = Cardinality(AtOrAbove)

\* the scored rows of the finished run whose URL was cleared
Cleared == {i \in scored : ~isna(csv[i].linkedin_url) /\ isna(df[i].linkedin_url)}

\* C12: with apply_filter the reported "Filtered out (score <
\* min_match_score)" count is the number of rows whose URL the run cleared,
\* for every min_match_score.
C12_FilteredCountIsClearedRows ==
    (pc = "done" /\ apply_filter) => report.filtered_count = <<Cardinality(Cleared)>>

\* C13: when the director name or the title passed to either scorer is
\* absent, the call returns match_score 0, whatever the other arguments are.
C13_AbsentNameOrTitleScoresZero ==
    (IsCall(result) /\ (isna(subject.director_name) \/ isna(result.linkedin_title)))
        => result.ret.match_score = 0

-----------------------------------------------------------------------------
(* Properties of the matchers' parts, under SpecParts *)

IsNameCall == result.fn = "extract_name_parts" /\ ~isna(subject.director_name)

\* the whitespace-separated tokens of the raw name
RawTokens == split(str(subject.director_name))

\* the tokens of the name after the credentials and the dots are removed
CleanTokens == split(CleanName(subject.director_name))

\* a token the cleaning leaves as it is: no dot, no credential
PlainToken(t) == ~Contains(t, ".") /\ ReSubCredentials(t, 1) = t

\* C14 as stated: for a name with at least one token, first_names contains
\* the literal first token of the raw name, lowercased.
C14_LiteralFirstTokenInFirstNames ==
    (IsNameCall /\ RawTokens # <<>>)
        => InList(lower(RawTokens[1]), result.ret.first_names)

\* C14 amended: for a name with at least one token after cleaning, the first
\* element of first_names is the first token of the cleaned name, lowercased;
\* it is the literal first raw token when that token has no dot and no
\* credential.
C14_FirstCleanTokenInFirstNames ==
    (IsNameCall /\ CleanTokens # <<>>)
        => /\ result.ret.first_names # <<>>
           /\ result.ret.first_names[1] = lower(CleanTokens[1])
           /\ (RawTokens # <<>> /\ PlainToken(RawTokens[1]))
                => InList(lower(RawTokens[1]), result.ret.first_names)

\* "Millard S. Drexler": the literal first token leads first_names, before
\* its nickname
C14_Witness ==
    /\ IsNameCall
    /\ subject.director_name = Str("Millard S. Drexler")
    /\ PlainToken(RawTokens[1])
    /\ result.ret.first_names = <<"millard", "mickey">>

\* the primary first name: the first token of the cleaned name, lowercased
PrimaryFirst == lower(CleanTokens[1])

NoRepeats(list) == \A i, j \in 1..Len(list) : list[i] = list[j] => i = j

\* C15: nickname expansion is bidirectional over the table: first_names has
\* every nickname of a formal first name and every formal name the first name
\* is a nickname of; the first name itself comes first and nothing occurs
\* twice.
C15_NicknamesBothWays ==
    (IsNameCall /\ CleanTokens # <<>>)
        => /\ result.ret.first_names[1] = PrimaryFirst
           /\ \A k \in 1..Len(nicknames) :
                /\ nicknames[k].formal = PrimaryFirst
                    => \A j \in 1..Len(nicknames[k].nicks) :
                            InList(nicknames[k].nicks[j], result.ret.first_names)
                /\ InList(PrimaryFirst, nicknames[k].nicks)
                    => InList(nicknames[k].formal, result.ret.first_names)
           /\ NoRepeats(result.ret.first_names)

\* "mickey", a nickname of two formal names, gets both
C15_Witness ==
    /\ IsNameCall
    /\ subject.director_name = Str("mickey Smith")
    /\ result.ret.first_names = <<"mickey", "michael", "millard">>

\* the final token of the cleaned name, lowercased
FinalToken == lower(CleanTokens[Len(CleanTokens)])

\* C16 as stated: for a name with more than two tokens the last-name
\* candidates include the literal final token, lowercased.
C16_LiteralFinalTokenInLastNames ==
    (IsNameCall /\ Len(RawTokens) > 2)
        => InList(lower(RawTokens[Len(RawTokens)]), result.ret.last_names)

\* C16 amended: for a name with more than two tokens after cleaning, the
\* final token is among the last-name candidates exactly when it is no
\* generational suffix and longer than one character; it is then the primary
\* surname and the only candidate.
C16_FinalTokenUnlessSuffix ==
    (IsNameCall /\ Len(CleanTokens) > 2)
        => /\ InList(FinalToken, result.ret.last_names)
                <=> (FinalToken \notin name_suffixes /\ Len(FinalToken) > 1)
           /\ InList(FinalToken, result.ret.last_names)
                => result.ret.last_names = <<FinalToken>>

\* "Bob de la Cruz": the final token of a compound last name is the candidate
C16_Witness ==
    /\ IsNameCall
    /\ subject.director_name = Str("Bob de la Cruz")
    /\ Len(CleanTokens) = 4
    /\ result.ret.last_names = <<"cruz">>

IsCompanyCall == result.fn = "clean_company_name_for_matching"

\* the words of the suffix-stripped company name
StrippedWords == split(CleanCompany(subject.company_name))

\* the original company string, trimmed
Trimmed == strip(str(subject.company_name))

\* the words the claim says are kept
KeptWords ==
    SelectSeq(StrippedWords,
              LAMBDA w : /\ w \notin noise_words
                         /\ \E i \in 1..Len(w) : ~IsDigit(SubSeq(w, i, i))
                         /\ \/ Len(w) > 3
                            \/ Len(w) \in 2..3 /\ upper(w) = Trimmed)

IsEmptyResult ==
    IsCompanyCall /\ ~isna(subject.company_name) /\ result.ret = <<>>

\* C18 as stated: the significant-word list of a non-absent company name is
\* empty only if the name is longer than 4 characters and, after suffix
\* stripping, consists of stoplist words only.
C18_EmptyOnlyForLongStoplistNames ==
    IsEmptyResult =>
        /\ Len(Trimmed) > 4
        /\ \A i \in 1..Len(StrippedWords) : StrippedWords[i] \in noise_words

\* C18 amended: the list is empty only if the trimmed name is not 2 to 4
\* characters long and every word of the suffix-stripped name is a stoplist
\* word, all digits, or at most 3 characters long.
C18_EmptyOnlyWithoutSignificantWord ==
    IsEmptyResult =>
        /\ Len(Trimmed) \notin 2..4
        /\ \A i \in 1..Len(StrippedWords) :
            \/ StrippedWords[i] \in noise_words
            \/ isdigit(StrippedWords[i])
            \/ Len(StrippedWords[i]) <= 3

\* "3M Co": five characters, and the one word left is short
C18_Witness ==
    /\ IsEmptyResult
    /\ subject.company_name = Str("3M Co")
    /\ StrippedWords = <<"3m">>

IsCompanyMatchCall == result.fn = "verify_company_match"

\* the significant words of the company that stand as whole words in the
\* lowercased title; none when the company or the title is absent
Occurring(company_name, linkedin_title) ==
    IF isna(company_name) \/ isna(linkedin_title) THEN <<>>
    ELSE SelectSeq(clean_company_name_for_matching(company_name),
                   LAMBDA w : ReSearchWord(w, lower(str(linkedin_title))))

\* C19: the company matches exactly when a significant word stands as a whole
\* word in the lowercased title, matched_words is the sub-list of the
\* significant words that do, and an empty word list never matches.
C19_CompanyMatchedIffAWordOccurs ==
    IsCompanyMatchCall =>
        /\ result.ret.company_matched
              = (Occurring(subject.company_name, result.linkedin_title) # <<>>)
        /\ result.ret.matched_words
              = Occurring(subject.company_name, result.linkedin_title)
        /\ clean_company_name_for_matching(subject.company_name) = <<>>
              => ~result.ret.company_matched

\* one of the two significant words stands in the title
C19_Witness ==
    /\ IsCompanyMatchCall
    /\ subject.company_name = Str("Home & Garden Limited")
    /\ result.linkedin_title = Str("Head of Home Depot and Coca-Cola HBC")
    /\ clean_company_name_for_matching(subject.company_name) = <<"home", "garden">>
    /\ result.ret = [company_matched |-> TRUE, matched_words |-> <<"home">>]

-----------------------------------------------------------------------------
(* Properties of the scraper, under SpecScrape *)

\* run_scraping has returned from a run its loop left by the break
Aborted ==
    scrape_pc = "returned" /\ run.consecutive_failures >= MAX_CONSECUTIVE_FAILURES

\* C20: when run_scraping returns from a run aborted by three consecutive
\* failed batches, the checkpoint file and its results file are on disk.
C20_CheckpointKeptAfterAbort ==
    Aborted => output_dir.checkpoint # NoFile /\ output_dir.temp_results # NoFile

-----------------------------------------------------------------------------
(* Properties of the surname scan and of the name match, under SpecParts *)

\* the positions after the first whose token is no generational suffix and
\* longer than one character
SurnamePositions ==
    {i \in 2..Len(CleanTokens) :
        lower(CleanTokens[i]) \notin name_suffixes /\ Len(CleanTokens[i]) > 1}

\* C21: the surname scan selects the last token after the first that is no
\* generational suffix and longer than one character, and nothing else; with
\* no such token, as in a one-token name, last_names is empty.
C21_SurnameIsLastQualifyingToken ==
    IsNameCall =>
        /\ result.ret.last_names =
              IF SurnamePositions = {} THEN <<>>
              ELSE <<lower(CleanTokens[Max(SurnamePositions)])>>
        /\ \A k \in 1..Len(result.ret.last_names) :
              /\ result.ret.last_names[k] \notin name_suffixes
              /\ Len(result.ret.last_names[k]) > 1

\* "William H Gates 3rd": the suffix is passed over, the initial is not
\* reached
C21_Witness ==
    /\ IsNameCall
    /\ subject.director_name = Str("William H Gates 3rd")
    /\ SurnamePositions = {3}
    /\ result.ret.last_names = <<"gates">>

IsNameMatchCall == result.fn = "verify_name_match"

\* the positions of the names that stand as whole words in the title
HitPositions(names, title_lower) ==
    {i \in 1..Len(names) : ReSearchWord(names[i], title_lower)}

\* the name at the earliest of the positions, None without position
EarliestHit(names, hits) == IF hits = {} THEN None ELSE Str(names[Min(hits)])

\* the first-name variations of the director the call was about
CalledFirstNames == extract_name_parts(subject.director_name).first_names

\* C22: matched_first is the earliest element of first_names, in list order,
\* that stands as a whole word in the lowercased title, and None exactly when
\* no element does (or the name or the title is absent).
C22_MatchedFirstIsEarliestVariant ==
    IsNameMatchCall =>
        result.ret.matched_first =
            IF isna(subject.director_name) \/ isna(result.linkedin_title) THEN None
            ELSE EarliestHit(CalledFirstNames,
                             HitPositions(CalledFirstNames,
                                          lower(str(result.linkedin_title))))

\* the nickname comes first in the title, the literal first name is matched
C22_Witness ==
    /\ IsNameMatchCall
    /\ subject.director_name = Str("Timothy D. Cook")
    /\ result.linkedin_title = Str("Tim and Timothy Cook | LinkedIn")
    /\ CalledFirstNames = <<"timothy", "tim", "timmy">>
    /\ result.ret.matched_first = Str("timothy")

IsKeywordCall == result.fn = "check_board_role_keywords"

\* the phrase stands somewhere in the text, inside a word or not
IsSubstring(phrase, text) ==
    \E p \in 1..(Len(text) - Len(phrase) + 1) : SubSeq(text, p, p + Len(phrase) - 1) = phrase

\* the position of a phrase in the keyword list
KeywordPosition(phrase) == CHOOSE k \in 1..Len(board_keywords) : board_keywords[k] = phrase

\* the list holds the phrases of the keyword list that stand in the text, and
\* no other, in the order of the keyword list
PhrasesOf(matched_keywords, text) ==
    /\ \A k \in 1..Len(board_keywords) :
          InList(board_keywords[k], matched_keywords) <=> IsSubstring(board_keywords[k], text)
    /\ \A i \in 1..Len(matched_keywords) : InList(matched_keywords[i], board_keywords)
    /\ \A i, j \in 1..Len(matched_keywords) :
          i < j => KeywordPosition(matched_keywords[i]) < KeywordPosition(matched_keywords[j])

\* C23: matched_keywords holds every phrase of the keyword list that is a
\* plain substring of the lowercased title and no other, in the order of the
\* list; has_board_keyword is true exactly when the list is not empty; an
\* absent title gives false and the empty list.
C23_KeywordsArePlainSubstrings ==
    IsKeywordCall =>
        /\ result.ret.has_board_keyword = (result.ret.matched_keywords # <<>>)
        /\ IF isna(result.linkedin_title)
           THEN result.ret = [has_board_keyword |-> FALSE, matched_keywords |-> <<>>]
           ELSE PhrasesOf(result.ret.matched_keywords, lower(str(result.linkedin_title)))

\* "board" inside "Onboarding" counts
C23_Witness ==
    /\ IsKeywordCall
    /\ result.linkedin_title = Str("Onboarding specialist")
    /\ result.ret = [has_board_keyword |-> TRUE, matched_keywords |-> <<"board">>]

-----------------------------------------------------------------------------
(* Properties of the mode comparison, under SpecModes *)

Compared == pc = "compared" /\ report # None

\* C24: the 'verified' flag of verify_name_match is the strict mode, so when
\* analyze_verification_modes returns, strict_verified equals both_names, and
\* it is less than lenient_verified when a row matched on one name only.
C24_StrictCountsBothNames ==
    Compared =>
        /\ report[1].strict_verified = report[1].both_names
        /\ report[1].first_only + report[1].last_only > 0
              => report[1].strict_verified < report[1].lenient_verified

-----------------------------------------------------------------------------
(* Properties of the counters, under Spec, and of a second pass, under
   SpecAgain *)

\* C25: when verify_url_data ends, the 'no URL' count and the six quality
\* counts add up to the number of rows, each quality count is the number of
\* scored rows that carry that flag, and 'Total URLs' is the number of rows
\* that were scored.
C25_CountersPartitionRows ==
    pc = "done" =>
        /\ report.no_url_count + SumOver(quality_counts, quality_flags) = Len(df)
        /\ \A q \in quality_flags :
              quality_counts[q] = Cardinality({i \in scored : df[i].quality_flag = q})
        /\ report.total_with_urls = Cardinality(scored)
        /\ report.no_url_count = Len(df) - Cardinality(scored)

\* two rows, one skipped and one scored GOOD
C25_Witness ==
    /\ pc = "done"
    /\ Len(df) = 2
    /\ report.no_url_count = 1
    /\ scored = {2}
    /\ df[2].quality_flag = "GOOD"
    /\ quality_counts["GOOD"] = 1

\* verify_url_data has returned from a call on the table an earlier call
\* returned
SecondPassDone == pc = "done" /\ Len(returned) >= 2

\* the table before the latest call, and after it
Before == returned[Len(returned) - 1]
After == returned[Len(returned)]

\* C26: when verify_url_data is applied to the table an earlier call
\* returned, every row that call filtered is skipped and ends with
\* match_score 0, verified false and quality_flag NO_MATCH, and every row
\* that kept its URL is given the score it had.
C26_SecondPassForgetsFilteredRows ==
    SecondPassDone =>
        \A i \in 1..Len(Before) :
            /\ Before[i].search_status = "filtered_low_score"
                  => /\ i \notin scored
                     /\ After[i].match_score = 0
                     /\ After[i].verified = FALSE
                     /\ After[i].quality_flag = "NO_MATCH"
            /\ ~IsSkipped(Before[i])
                  => /\ i \in scored
                     /\ After[i].match_score = Before[i].match_score

\* a row the first call scored above 0 and filtered, and a row that kept its
\* URL and its score
C26_Witness ==
    /\ SecondPassDone
    /\ Len(Before) = 2
    /\ Before[1].search_status = "filtered_low_score"
    /\ Before[1].match_score > 0
    /\ After[1].match_score = 0
    /\ ~IsSkipped(Before[2])
    /\ After[2].match_score = Before[2].match_score
    /\ After[2].match_score > 0

-----------------------------------------------------------------------------
(* Properties of the checkpoints across sessions, under SpecScrape *)

\* the step writes a checkpoint
WritesCheckpoint ==
    /\ output_dir'.checkpoint # NoFile
    /\ <<output_dir'.checkpoint, output_dir'.temp_results>>
          # <<output_dir.checkpoint, output_dir.temp_results>>

\* C27: every checkpoint written holds in its results file the items of the
\* profiles its profiles_processed counts, the items collected in earlier
\* sessions (previous_results) included.
C27_CheckpointKeepsEarlierItems ==
    [][WritesCheckpoint =>
          /\ output_dir'.temp_results # NoFile
          /\ \A k \in 1..Len(run.previous_results) :
                InList(run.previous_results[k], output_dir'.temp_results[1])
          /\ \A k \in 1..Len(run'.all_results) :
                InList(run'.all_results[k], output_dir'.temp_results[1])]_vars

\* the step is a pass of the loop whose batch failed
BatchFailed ==
    /\ scrape_pc = "batches"
    /\ run'.consecutive_failures = run.consecutive_failures + 1

\* C28: profiles_processed counts only profiles whose batch was scraped:
\* after a failed batch the checkpoint on disk does not count the profiles
\* of that batch, so that a resumed run submits them again.
C28_FailedBatchNotCounted ==
    [][(BatchFailed /\ output_dir'.checkpoint # NoFile) =>
          output_dir'.checkpoint[1].profiles_processed <= run.start_from + run.i]_vars

-----------------------------------------------------------------------------
(* Properties of the search, under SpecSearch *)

\* the call got a 200 reply, after retries or not, and was given both names
AnsweredWithNames ==
    /\ result.fn = "search_linkedin_profile"
    /\ result.replies[Len(result.replies)].kind = "200"
    /\ ~isna(subject.director_name) /\ str(subject.director_name) # ""
    /\ ~isna(subject.company_name) /\ str(subject.company_name) # ""

\* the items of the 200 reply
Items == result.replies[Len(result.replies)].items

\* the positions of the linkedin.com/in/ results, and of those the scorer
\* verifies
Profiles == {k \in 1..Len(Items) : IsProfileLink(Items[k].link)}

VerifiedProfiles ==
    {k \in Profiles :
        verify_director_match(subject.director_name, subject.company_name,
                              Str(Items[k].title)).verified}

\* C30: on a 200 reply, with both names given, search_linkedin_profile
\* returns the first profile result the scorer verifies; without verified
\* result it returns the first profile result, as 'found' and unverified;
\* 'not_found' is returned only when the reply has no profile result.
C30_FirstVerifiedElseFirstProfile ==
    AnsweredWithNames =>
        /\ VerifiedProfiles # {}
              => /\ result.ret.url = Str(Items[Min(VerifiedProfiles)].link)
                 /\ result.ret.verified = <<TRUE>>
        /\ (VerifiedProfiles = {} /\ Profiles # {})
              => /\ result.ret.url = Str(Items[Min(Profiles)].link)
                 /\ result.ret.status = "found"
                 /\ result.ret.verified = <<FALSE>>
        /\ result.ret.status = "not_found" => Profiles = {}

-----------------------------------------------------------------------------
(* Properties of the URL finder's checkpoints, under SpecBatch *)

\* the indexes, counted from 0, of the rows of a table whose status is
\* quota_exceeded
QuotaRows(d) == {k \in 0..(Len(d) - 1) : d[k + 1] = Str("quota_exceeded")}

\* the rows of the results file that recorded quota_exceeded
StoppedAt == IF results_file = None THEN {} ELSE QuotaRows(results_file[1])

\* a step that writes the completion line of the batch
MarksBatch == checkpoint_path'.completed # checkpoint_path.completed

\* the end of a run that quota_exceeded stopped
EndsStopped == batch_pc = "save" /\ batch_pc' = "idle" /\ job.quota_exceeded

\* the start of a run with resume, after a run that quota_exceeded stopped
ResumesAfterStop ==
    /\ batch_pc = "idle" /\ batch_pc' # "idle"
    /\ job'.resume
    /\ StoppedAt # {}

\* the batch is marked, and its checkpoint files removed, only by a run that
\* reached the last query without quota_exceeded
MarkedOnlyWhenFinished ==
    MarksBatch =>
        /\ batch_pc = "save"
        /\ ~job.quota_exceeded
        /\ job.i = batch_file
        /\ QuotaRows(job.df) = {}
        /\ checkpoint_path'.checkpoint = None
        /\ checkpoint_path'.progress = None

\* a run that quota_exceeded stopped leaves the checkpoint directory as it is
StoppedKeepsFiles == EndsStopped => checkpoint_path' = checkpoint_path

\* C29: the batch is marked complete, and its checkpoint files removed, only
\* by a run that reached the last query without quota_exceeded; a run that
\* quota_exceeded stopped leaves the batch unmarked and keeps the last
\* checkpoint, and the next run with resume starts at an index not greater
\* than the row that recorded quota_exceeded.
C29_ResumeStartsAtOrBeforeQuotaRow ==
    [][/\ MarkedOnlyWhenFinished
       /\ StoppedKeepsFiles
       /\ ResumesAfterStop => \A q \in StoppedAt : job'.start_from <= q]_vars

\* C29, amended: the same for the mark and the files; the next run with
\* resume starts at the checkpoint's queries_processed, 0 without checkpoint,
\* on a table whose earlier rows all have a status other than quota_exceeded;
\* that index is not greater than the row that recorded quota_exceeded when
\* the stopped run was itself run with resume.
C29_ResumeStartsAtCheckpoint ==
    [][/\ MarkedOnlyWhenFinished
       /\ StoppedKeepsFiles
       /\ ResumesAfterStop =>
            /\ job'.start_from =
                  IF checkpoint_path.checkpoint = None THEN 0
                  ELSE checkpoint_path.checkpoint[1].queries_processed
            /\ \A k \in 1..job'.start_from :
                  job'.df[k] # None /\ job'.df[k] # Str("quota_exceeded")
            /\ job.resume => \A q \in StoppedAt : job'.start_from <= q]_vars

\* a run with resume has started from a checkpoint, after a run with resume
\* that quota_exceeded stopped beyond that checkpoint
C29_Witness ==
    /\ batch_pc = "loop"
    /\ job.resume
    /\ job.start_from = SAVE_EVERY_N_QUERIES
    /\ job.i = job.start_from
    /\ batch_runs = 2
    /\ StoppedAt = {SAVE_EVERY_N_QUERIES + 1}
    /\ checkpoint_path.completed = <<>>

====
